---- MODULE Spec2Model ----
(***************************************************************************)
(* A model of the sync orchestration engine of local_db_remote:            *)
(*   - the manifest store            (src/src/manifest.rs)                 *)
(*   - the snapshot lifecycle        (src/src/database.rs)                 *)
(*   - the default runtime services  (src/src/sync/runtime.rs)             *)
(*   - the orchestrator              (src/src/sync/orchestrator.rs)        *)
(*                                                                         *)
(* Two specifications share the variables:                                 *)
(*   Spec          one run of run_sync_with, one action per step           *)
(*   ManifestSpec  a single writer applying manifest store operations      *)
(***************************************************************************)
EXTENDS Integers, Sequences, FiniteSets, TLC

(***************************************************************************)
(* Bounds of the model.                                                    *)
(***************************************************************************)
\* largest seed_generation a manifest starts with; bumps stop one above it
MaxGen == 2
\* largest schema_version a manifest starts with
MaxVersion == 3
\* the environment's chain id list holds at most MaxEnvTokens tokens
MaxEnvTokens == 2
\* largest block number the inspection of a snapshot returns
MaxBlock == 1
\* a sync_status table is declared with at most MaxColumns columns
MaxColumns == 2
\* the timestamp handed to a commit in ManifestSpec (earlier entries hold 0)
CommitTime == 1

\* the network ids of the model
Chains == {10, 20}

(***************************************************************************)
(* Program constants.                                                      *)
(***************************************************************************)
CURRENT_SCHEMA_VERSION == 2
DEFAULT_SEED_GENERATION == 1

(***************************************************************************)
(* State.                                                                  *)
(***************************************************************************)
VARIABLES
    manifestFile,   \* content of <db_dir>/manifest.yaml
    sourceConst,    \* CURRENT_SCHEMA_VERSION as written in the manifest source file
    lastOp,         \* the last operation, its input and its result (WritersSpec: per writer)
    pc,             \* Spec: the step run_sync_with executes next
    err,            \* Spec: the error the run returned, and the step that raised it
    log,            \* Spec: the collaborator calls made so far, in order
    files,          \* the database directory
    manifest,       \* Spec: the Manifest download_manifest returned
    sources,        \* Spec: the ids each source gave to the network set
    chainIds,       \* Spec: the BTreeSet chain_ids
    cur,            \* Spec: the chain_id sync_single_chain is working on (0: none)
    apiToken,       \* Spec: the api token resolve_api_token returned
    plan,           \* Spec: the SyncPlan of the current chain
    result,         \* Spec: the result of the closure in sync_single_chain
    clock,          \* Spec: number of time.now() calls made
    SQLITE_WARNING_EMITTED,  \* the process-wide flag of warn_if_sqlite_missing
    warnings        \* number of "sqlite3 CLI not found" lines printed

manifestVars == <<manifestFile, sourceConst, lastOp>>
warnVars == <<SQLITE_WARNING_EMITTED, warnings>>
runVars == <<pc, err, log, files, manifest, sources, chainIds, cur, apiToken,
             plan, result, clock, warnVars>>
vars == <<manifestFile, sourceConst, lastOp, pc, err, log, files, manifest, sources,
          chainIds, cur, apiToken, plan, result, clock, warnVars>>

(***************************************************************************)
(* Manifest documents.  A file is absent, torn (a write that failed after  *)
(* truncating it) or a YAML document.  In a document seed_generation is    *)
(* optional: <<>> when the key is missing, <<g>> when present.             *)
(***************************************************************************)
AbsentFile == [kind |-> "absent"]
TornFile == [kind |-> "torn"]

\* RELEASE_DOWNLOAD_URL_TEMPLATE with {file} replaced by "<chain_id>.sql.gz"
ReleaseUrl(chain_id) == [host |-> "release", file |-> chain_id]
\* some other URL an existing entry may hold
LegacyUrl(chain_id) == [host |-> "legacy", file |-> chain_id]

Ok(v) == [ok |-> TRUE, value |-> v]
Err(e) == [ok |-> FALSE, error |-> e]

\* Manifest::new
ManifestNew == [schema_version |-> CURRENT_SCHEMA_VERSION, networks |-> <<>>]

\* serde: #[serde(default = "ManifestEntry::default_seed_generation")]
DeserializeEntry(e) ==
    [dump_url |-> e.dump_url,
     dump_timestamp |-> e.dump_timestamp,
     seed_generation |-> IF Len(e.seed_generation) = 0
                         THEN DEFAULT_SEED_GENERATION
                         ELSE e.seed_generation[1]]

\* serde_yaml::from_str::<Manifest>
DeserializeManifest(doc) ==
    [schema_version |-> doc.schema_version,
     networks |-> [n \in DOMAIN doc.networks |-> DeserializeEntry(doc.networks[n])]]

\* serde_yaml::to_string(manifest): every field is written
SerializeManifest(m) ==
    [kind |-> "doc",
     schema_version |-> m.schema_version,
     networks |-> [n \in DOMAIN m.networks |->
                     [dump_url |-> m.networks[n].dump_url,
                      dump_timestamp |-> m.networks[n].dump_timestamp,
                      seed_generation |-> <<m.networks[n].seed_generation>>]]]

\* a load for which a missing file is a read error
load_manifest_AbsentIsError(file, readOk) ==
    IF file.kind = "absent" \/ ~readOk THEN Err([kind |-> "read"])
    ELSE IF file.kind = "torn" THEN Err([kind |-> "parse"])
    ELSE Ok(DeserializeManifest(file))

\* load_manifest; readOk: whether fs::read_to_string succeeds
load_manifest(file, readOk) ==
    IF file.kind = "absent" THEN Ok(ManifestNew)
    ELSE IF ~readOk THEN Err([kind |-> "read"])
    ELSE IF file.kind = "torn" THEN Err([kind |-> "parse"])
    ELSE Ok(DeserializeManifest(file))

\* The outcomes of fs::write: "ok"; "fail" (the file could not be opened, nothing
\* changed); "torn" (the file was truncated and the write failed part-way).
WriteOutcomes == {"ok", "fail", "torn"}

\* write_manifest; the result carries the file as it is afterwards
write_manifest(file, m, w) ==
    IF w = "ok" THEN [ok |-> TRUE, file |-> SerializeManifest(m)]
    ELSE IF w = "fail" THEN [ok |-> FALSE, error |-> [kind |-> "write"], file |-> file]
    ELSE [ok |-> FALSE, error |-> [kind |-> "write"], file |-> TornFile]

\* an upsert that gives the entry the default generation
UpsertEntry_GenerationReset(m, network_id, dump_url, timestamp) ==
    [schema_version |-> m.schema_version,
     networks |-> [n \in DOMAIN m.networks \cup {network_id} |->
                     IF n = network_id
                     THEN [dump_url |-> dump_url,
                           dump_timestamp |-> timestamp,
                           seed_generation |-> DEFAULT_SEED_GENERATION]
                     ELSE m.networks[n]]]

\* an upsert into a fresh manifest
UpsertEntry_OthersDropped(m, network_id, dump_url, timestamp) ==
    [schema_version |-> m.schema_version,
     networks |-> [n \in {network_id} |->
                     [dump_url |-> dump_url,
                      dump_timestamp |-> timestamp,
                      seed_generation |->
                          IF network_id \in DOMAIN m.networks
                          THEN m.networks[network_id].seed_generation
                          ELSE DEFAULT_SEED_GENERATION]]]

\* The upsert of update_manifest on a loaded manifest
UpsertEntry(m, network_id, dump_url, timestamp) ==
    LET seed_generation ==
            IF network_id \in DOMAIN m.networks
            THEN m.networks[network_id].seed_generation
            ELSE DEFAULT_SEED_GENERATION
        entry == [dump_url |-> dump_url,
                  dump_timestamp |-> timestamp,
                  seed_generation |-> seed_generation]
    IN [schema_version |-> m.schema_version,
        networks |-> [n \in DOMAIN m.networks \cup {network_id} |->
                        IF n = network_id THEN entry ELSE m.networks[n]]]

\* an update_manifest that does not look at schema_version
update_manifest_Unchecked(file, network_id, dump_url, timestamp, readOk, w) ==
    LET loaded == load_manifest(file, readOk) IN
    IF ~loaded.ok THEN [ok |-> FALSE, error |-> loaded.error, file |-> file]
    ELSE write_manifest(file,
                        UpsertEntry(loaded.value, network_id, dump_url, timestamp), w)

\* update_manifest
update_manifest(file, network_id, dump_url, timestamp, readOk, w) ==
    LET loaded == load_manifest(file, readOk) IN
    IF ~loaded.ok THEN [ok |-> FALSE, error |-> loaded.error, file |-> file]
    ELSE IF loaded.value.schema_version # CURRENT_SCHEMA_VERSION
    THEN [ok |-> FALSE,
          error |-> [kind |-> "schema_mismatch",
                     found |-> loaded.value.schema_version,
                     expected |-> CURRENT_SCHEMA_VERSION],
          file |-> file]
    ELSE write_manifest(file,
                        UpsertEntry(loaded.value, network_id, dump_url, timestamp), w)

\* a bump that increments the generation of every network
bump_seed_generation_AllNetworks(file, network_id, readOk, w) ==
    LET loaded == load_manifest(file, readOk) IN
    IF ~loaded.ok THEN [ok |-> FALSE, error |-> loaded.error, file |-> file]
    ELSE IF network_id \notin DOMAIN loaded.value.networks
    THEN [ok |-> FALSE,
          error |-> [kind |-> "not_found", network_id |-> network_id],
          file |-> file]
    ELSE LET previous == loaded.value.networks[network_id].seed_generation
             next == previous + 1
             m == [loaded.value EXCEPT !.networks =
                      [n \in DOMAIN loaded.value.networks |->
                          [loaded.value.networks[n] EXCEPT !.seed_generation = @ + 1]]]
             written == write_manifest(file, m, w)
         IN IF ~written.ok THEN written
            ELSE [ok |-> TRUE,
                  value |-> [network_id |-> network_id,
                             previous |-> previous, next |-> next],
                  file |-> written.file]

\* a bump that creates the entry of a network the manifest does not list
bump_seed_generation_Creating(file, network_id, readOk, w) ==
    LET loaded == load_manifest(file, readOk) IN
    IF ~loaded.ok THEN [ok |-> FALSE, error |-> loaded.error, file |-> file]
    ELSE LET previous == IF network_id \in DOMAIN loaded.value.networks
                         THEN loaded.value.networks[network_id].seed_generation
                         ELSE 0
             next == previous + 1
             m == UpsertEntry([loaded.value EXCEPT !.networks =
                                 [n \in DOMAIN loaded.value.networks |->
                                    IF n = network_id
                                    THEN [loaded.value.networks[n]
                                             EXCEPT !.seed_generation = next]
                                    ELSE loaded.value.networks[n]]],
                              network_id, LegacyUrl(network_id), 0)
             written == write_manifest(file, m, w)
         IN IF ~written.ok THEN written
            ELSE [ok |-> TRUE,
                  value |-> [network_id |-> network_id,
                             previous |-> previous, next |-> next],
                  file |-> written.file]

\* bump_seed_generation
bump_seed_generation(file, network_id, readOk, w) ==
    LET loaded == load_manifest(file, readOk) IN
    IF ~loaded.ok THEN [ok |-> FALSE, error |-> loaded.error, file |-> file]
    ELSE IF network_id \notin DOMAIN loaded.value.networks
    THEN [ok |-> FALSE,
          error |-> [kind |-> "not_found", network_id |-> network_id],
          file |-> file]
    ELSE LET previous == loaded.value.networks[network_id].seed_generation
             next == previous + 1
             m == [loaded.value EXCEPT !.networks[network_id].seed_generation = next]
             written == write_manifest(file, m, w)
         IN IF ~written.ok THEN written
            ELSE [ok |-> TRUE,
                  value |-> [network_id |-> network_id,
                             previous |-> previous, next |-> next],
                  file |-> written.file]

\* update_schema_version_constant; the source file holds the constant's value
\* (0: the marker is not in the file, as after a write that failed part-way);
\* srcIo: "ok", "fail" (the read or the opening for writing fails) or "torn"
update_schema_version_constant(src, expected_current, next, srcIo) ==
    IF srcIo = "fail" THEN [ok |-> FALSE, error |-> [kind |-> "source_io"], src |-> src]
    ELSE IF src = 0 THEN [ok |-> FALSE, error |-> [kind |-> "no_marker"], src |-> src]
    ELSE IF src # expected_current
    THEN [ok |-> FALSE,
          error |-> [kind |-> "constant_mismatch",
                     constant |-> src, manifest |-> expected_current],
          src |-> src]
    ELSE IF srcIo = "torn"
    THEN [ok |-> FALSE, error |-> [kind |-> "source_io"], src |-> 0]
    ELSE [ok |-> TRUE, src |-> next]

\* a bump that skips a version
bump_schema_version_ByTwo(file, src, readOk, w, srcIo) ==
    LET loaded == load_manifest(file, readOk) IN
    IF ~loaded.ok THEN [ok |-> FALSE, error |-> loaded.error, file |-> file, src |-> src]
    ELSE LET previous == loaded.value.schema_version
             next == previous + 2
             m == [loaded.value EXCEPT !.schema_version = next]
             written == write_manifest(file, m, w)
         IN IF ~written.ok
            THEN [ok |-> FALSE, error |-> written.error,
                  file |-> written.file, src |-> src]
            ELSE LET updated == update_schema_version_constant(src, previous, next, srcIo)
                 IN IF ~updated.ok
                    THEN [ok |-> FALSE, error |-> updated.error,
                          file |-> written.file, src |-> updated.src]
                    ELSE [ok |-> TRUE,
                          value |-> [previous |-> previous, next |-> next],
                          file |-> written.file, src |-> updated.src]

\* bump_schema_version: the manifest is rewritten before the constant is checked
bump_schema_version(file, src, readOk, w, srcIo) ==
    LET loaded == load_manifest(file, readOk) IN
    IF ~loaded.ok THEN [ok |-> FALSE, error |-> loaded.error, file |-> file, src |-> src]
    ELSE LET previous == loaded.value.schema_version
             next == previous + 1
             m == [loaded.value EXCEPT !.schema_version = next]
             written == write_manifest(file, m, w)
         IN IF ~written.ok
            THEN [ok |-> FALSE, error |-> written.error,
                  file |-> written.file, src |-> src]
            ELSE LET updated == update_schema_version_constant(src, previous, next, srcIo)
                 IN IF ~updated.ok
                    THEN [ok |-> FALSE, error |-> updated.error,
                          file |-> written.file, src |-> updated.src]
                    ELSE [ok |-> TRUE,
                          value |-> [previous |-> previous, next |-> next],
                          file |-> written.file, src |-> updated.src]

(***************************************************************************)
(* The database directory.  files[<<chain, kind>>] is the content of       *)
(* <chain>.db ("db"), <chain>.sql ("sql"), <chain>.sql.gz ("gz") and       *)
(* <chain>.sql.gz.tmp ("tmp"); "none": no such file.  Every fallible call  *)
(* of the code (a file operation, the spawn of a tool, its exit status)    *)
(* may fail, so an operation has a set of outcomes.                        *)
(***************************************************************************)
FileKinds == {"db", "sql", "gz", "tmp"}
Paths == Chains \X FileKinds

Exists(fs, chain, kind) == fs[<<chain, kind>>] # "none"
Put(fs, chain, kind, content) == [fs EXCEPT ![<<chain, kind>>] = content]
Remove(fs, chain, kind) == Put(fs, chain, kind, "none")
\* `let _ = fs::remove_file(path)`: the removal may fail, the error is dropped
BestEffortRemove(fs, chain, kind) == {fs, Remove(fs, chain, kind)}

Done(fs) == [ok |-> TRUE, files |-> fs]
Fail(fs, why) == [ok |-> FALSE, error |-> why, files |-> fs]

\* load_sql_dump, entered with the staging file written and no db file
load_sql_dump(fs, c) ==
    LET imported == Put(fs, c, "db", "imported")
        partial == Put(fs, c, "db", "partial")
    IN {Fail(fs, "open staging sql")}
       \cup {Fail(fs, "spawn sqlite3")}
       \* sqlite3 exits non-zero, having created the db file or not
       \cup {Fail(f, "sqlite3 import") : f \in {fs} \cup BestEffortRemove(partial, c, "db")}
       \cup {Done(imported)}

\* a prepare that keeps the db file it finds when there is no archive
PrepareFromDb_StaleKept(fs, c) ==
    LET noDb == Remove(fs, c, "db")
        created == Put(noDb, c, "sql", "partial")
        staged == Put(noDb, c, "sql", "staging")
    IN IF ~Exists(fs, c, "gz") THEN {Done(fs)}
       ELSE (IF Exists(fs, c, "db") THEN {Fail(fs, "remove existing db")} ELSE {})
            \cup {Fail(noDb, "create staging sql")}
            \cup {Fail(created, "spawn gzip")}
            \cup {Fail(f, "gzip -dc") : f \in BestEffortRemove(created, c, "sql")}
            \cup UNION {
                   IF r.ok
                   THEN {Fail(r.files, "remove extracted sql"),
                         Done(Remove(r.files, c, "sql"))}
                   ELSE {Fail(f, r.error) : f \in BestEffortRemove(r.files, c, "sql")}
                   : r \in load_sql_dump(staged, c)}

\* prepare_database from the removal of the stale db file on
PrepareFromDb(fs, c) ==
    LET noDb == Remove(fs, c, "db")
        created == Put(noDb, c, "sql", "partial")
        staged == Put(noDb, c, "sql", "staging")
    IN (IF Exists(fs, c, "db") THEN {Fail(fs, "remove existing db")} ELSE {})
       \cup
       (IF ~Exists(noDb, c, "gz") THEN {Done(noDb)}
        ELSE {Fail(noDb, "create staging sql")}
             \cup {Fail(created, "spawn gzip")}
             \cup {Fail(f, "gzip -dc") : f \in BestEffortRemove(created, c, "sql")}
             \cup UNION {
                    IF r.ok
                    THEN {Fail(r.files, "remove extracted sql"),
                          Done(Remove(r.files, c, "sql"))}
                    ELSE {Fail(f, r.error) : f \in BestEffortRemove(r.files, c, "sql")}
                    : r \in load_sql_dump(staged, c)})

\* prepare_database(db_stem, db_dir): the outcomes of the call
prepare_database(fs, c) ==
    {Fail(fs, "create database directory")}
    \cup
    (IF Exists(fs, c, "sql")
     THEN {Fail(fs, "remove stale sql")} \cup PrepareFromDb(Remove(fs, c, "sql"), c)
     ELSE PrepareFromDb(fs, c))

\* export_sql_dump, entered with the db file present
export_sql_dump(fs, c) ==
    LET noSql == Remove(fs, c, "sql")
        created == Put(noSql, c, "sql", "partial")
    IN (IF Exists(fs, c, "sql") THEN {Fail(fs, "remove stale sql")} ELSE {})
       \cup {Fail(noSql, "create sql dump")}
       \cup {Fail(created, "spawn sqlite3")}
       \cup {Fail(f, "sqlite3 export") : f \in BestEffortRemove(created, c, "sql")}
       \cup {Done(Put(noSql, c, "sql", "export"))}

\* a finalize that leaves the working db file in place
FinalizeFromExport_DbKept(fs, c) ==
    LET created == Put(fs, c, "tmp", "partial")
        compressed == Put(fs, c, "tmp", "new")
        noOld == Remove(compressed, c, "gz")
        moved == Put(Remove(noOld, c, "tmp"), c, "gz", "new")
        noSql == Remove(moved, c, "sql")
    IN {Fail(fs, "create compressed dump")}
       \cup {Fail(created, "spawn gzip")}
       \cup {Fail(f, "gzip -c") : f \in BestEffortRemove(created, c, "tmp")}
       \cup (IF Exists(compressed, c, "gz")
             THEN {Fail(compressed, "remove old dump")} ELSE {})
       \cup {Fail(noOld, "move archive")}
       \cup {Fail(moved, "remove sql dump")}
       \cup {Done(noSql)}

\* finalize_database from the creation of the temporary archive on
FinalizeFromExport(fs, c) ==
    LET created == Put(fs, c, "tmp", "partial")
        compressed == Put(fs, c, "tmp", "new")
        noOld == Remove(compressed, c, "gz")
        moved == Put(Remove(noOld, c, "tmp"), c, "gz", "new")
        noSql == Remove(moved, c, "sql")
    IN {Fail(fs, "create compressed dump")}
       \cup {Fail(created, "spawn gzip")}
       \cup {Fail(f, "gzip -c") : f \in BestEffortRemove(created, c, "tmp")}
       \cup (IF Exists(compressed, c, "gz")
             THEN {Fail(compressed, "remove old dump")} ELSE {})
       \cup {Fail(noOld, "move archive")}
       \cup {Fail(moved, "remove sql dump")}
       \cup {Fail(noSql, "remove working db")}
       \cup {Done(Remove(noSql, c, "db"))}

\* a finalize that does not look for the db file
finalize_database_NoSkip(fs, c) ==
    UNION {IF r.ok THEN FinalizeFromExport(r.files, c) ELSE {r}
           : r \in export_sql_dump(fs, c)}

\* finalize_database(db_stem, db_path, dump_path): the outcomes of the call
finalize_database(fs, c) ==
    IF ~Exists(fs, c, "db") THEN {Done(fs)}
    ELSE UNION {IF r.ok THEN FinalizeFromExport(r.files, c) ELSE {r}
                : r \in export_sql_dump(fs, c)}

\* an entry as an earlier writer may have left it
InitEntries(n) ==
    {[dump_url |-> LegacyUrl(n), dump_timestamp |-> 0, seed_generation |-> g] :
        g \in {<<>>} \cup {<<k>> : k \in 1..MaxGen}}

InitDocs ==
    UNION {
      UNION {
        {[kind |-> "doc", schema_version |-> v, networks |-> nets] :
            nets \in {f \in [S -> UNION {InitEntries(n) : n \in S}] :
                        \A n \in S : f[n] \in InitEntries(n)}}
        : S \in SUBSET Chains}
      : v \in 1..MaxVersion}

(***************************************************************************)
(* The default runtime services and the helpers of the orchestrator.       *)
(***************************************************************************)
\* An environment variable is unset, set to whitespace only, or set to a value.
EnvValues == {"unset", "blank", "value"}
\* .map(trim).filter(!is_empty): what is left of a variable
Present(v) == v = "value"

API_TOKEN_ENV_VARS == <<"RAIN_API_TOKEN", "RAIN_ORDERBOOK_API_TOKEN", "HYPERRPC_API_TOKEN">>

\* A text is the sequence of its characters; a word that no operation takes
\* apart is written as one character.
Word(w) == <<w>>

\* the resolved api token before resolve_api_token has run
NoToken == <<>>

RECURSIVE trim_start(_)
trim_start(text) ==
    IF text # <<>> /\ Head(text) = " " THEN trim_start(Tail(text)) ELSE text

RECURSIVE trim_end(_)
trim_end(text) ==
    IF text # <<>> /\ text[Len(text)] = " "
    THEN trim_end(SubSeq(text, 1, Len(text) - 1))
    ELSE text

\* str::trim
trim(text) == trim_end(trim_start(text))

\* what a token variable of the environment holds
TokenValues ==
    {[set |-> FALSE]}
    \cup {[set |-> TRUE, text |-> t] :
            t \in {<<>>, <<" ">>, <<"a">>, <<" ", "b", " ">>}}

\* a resolution that returns the value as the variable holds it
RECURSIVE ResolveFrom_Untrimmed(_, _)
ResolveFrom_Untrimmed(env, i) ==
    IF i > Len(API_TOKEN_ENV_VARS) THEN Err("api_token")
    ELSE LET held == env[API_TOKEN_ENV_VARS[i]]
         IN IF held.set /\ trim(held.text) # <<>> THEN Ok(held.text)
            ELSE ResolveFrom_Untrimmed(env, i + 1)

RECURSIVE ResolveFrom(_, _)
ResolveFrom(env, i) ==
    IF i > Len(API_TOKEN_ENV_VARS) THEN Err("api_token")
    ELSE LET held == env[API_TOKEN_ENV_VARS[i]]
         IN IF held.set /\ trim(held.text) # <<>> THEN Ok(trim(held.text))
            ELSE ResolveFrom(env, i + 1)

\* resolve_api_token: the trimmed value of the first variable that has one
resolve_api_token(env) == ResolveFrom(env, 1)

TokenEnvs == [{API_TOKEN_ENV_VARS[i] : i \in 1..Len(API_TOKEN_ENV_VARS)} -> TokenValues]

\* The tokens SYNC_CHAIN_IDS is written with: nothing, the digits of a chain
\* id, digits with blanks around them, and two tokens that are no u64.
Tokens ==
    {<<>>, <<"1", "0">>, <<" ", "2", "0", " ">>, <<"x">>, <<" ", "-", "1">>}

RECURSIVE Join(_)
Join(tokens) ==
    IF Len(tokens) = 0 THEN <<>>
    ELSE IF Len(tokens) = 1 THEN tokens[1]
    ELSE tokens[1] \o <<",">> \o Join(Tail(tokens))

\* SYNC_CHAIN_IDS: unset, or the text of up to MaxEnvTokens tokens joined by
\* commas (tokens: what the text was written from)
EnvLists ==
    {[set |-> FALSE]}
    \cup {[set |-> TRUE, text |-> Join(t), tokens |-> t] :
            t \in UNION {[1..k -> Tokens] : k \in 1..MaxEnvTokens}}

\* str::split(',')
RECURSIVE split(_, _)
split(text, separator) ==
    IF \A k \in 1..Len(text) : text[k] # separator THEN <<text>>
    ELSE LET k == CHOOSE i \in 1..Len(text) :
                      /\ text[i] = separator
                      /\ \A j \in 1..(i - 1) : text[j] # separator
         IN <<SubSeq(text, 1, k - 1)>> \o split(SubSeq(text, k + 1, Len(text)), separator)

Digits == <<"0", "1", "2", "3", "4", "5", "6", "7", "8", "9">>
DigitValue(ch) == (CHOOSE d \in 1..Len(Digits) : Digits[d] = ch) - 1

RECURSIVE DecimalValue(_)
DecimalValue(text) ==
    IF Len(text) = 0 THEN 0
    ELSE 10 * DecimalValue(SubSeq(text, 1, Len(text) - 1)) + DigitValue(text[Len(text)])

\* str::parse::<u64> on a text of a few characters
parse(text) ==
    IF text # <<>> /\ \A k \in 1..Len(text) : \E d \in 1..Len(Digits) : Digits[d] = text[k]
    THEN Ok(DecimalValue(text))
    ELSE Err([kind |-> "chain_ids", token |-> text])

\* u64::to_string
RECURSIVE to_string(_)
to_string(n) ==
    IF n < 10 THEN <<Digits[n + 1]>>
    ELSE to_string(n \div 10) \o <<Digits[(n % 10) + 1]>>

\* a loop that passes over the tokens that are no u64
RECURSIVE ParseTokens_Lenient(_, _, _)
ParseTokens_Lenient(tokens, i, acc) ==
    IF i > Len(tokens) THEN Ok(acc)
    ELSE LET trimmed == trim(tokens[i])
         IN IF trimmed = <<>> \/ ~parse(trimmed).ok
            THEN ParseTokens_Lenient(tokens, i + 1, acc)
            ELSE ParseTokens_Lenient(tokens, i + 1, Append(acc, parse(trimmed).value))

\* the loop of parse_chain_ids_from_env over the pieces of the split
RECURSIVE ParseTokens(_, _, _)
ParseTokens(tokens, i, acc) ==
    IF i > Len(tokens) THEN Ok(acc)
    ELSE LET trimmed == trim(tokens[i])
         IN IF trimmed = <<>> THEN ParseTokens(tokens, i + 1, acc)
            ELSE IF ~parse(trimmed).ok THEN parse(trimmed)
            ELSE ParseTokens(tokens, i + 1, Append(acc, parse(trimmed).value))

\* parse_chain_ids_from_env
parse_chain_ids_from_env(raw) ==
    IF ~raw.set THEN Ok(<<>>) ELSE ParseTokens(split(raw.text, ","), 1, <<>>)

Range(seq) == {seq[i] : i \in 1..Len(seq)}
Min(S) == CHOOSE x \in S : \A y \in S : x <= y

\* the iteration order of a BTreeSet / BTreeMap
RECURSIVE Ascending(_)
Ascending(S) == IF S = {} THEN <<>> ELSE <<Min(S)>> \o Ascending(S \ {Min(S)})

\* the manifests the release may serve
RemoteDocs ==
    {d \in InitDocs :
        /\ d.schema_version \in (CURRENT_SCHEMA_VERSION - 1)..CURRENT_SCHEMA_VERSION
        /\ \A n \in DOMAIN d.networks :
              d.networks[n].seed_generation \in {<<>>, <<MaxGen>>}}

\* the manifest is written to the manifest path: the outcomes, for a fetch
\* that ended as `fetch`
StoreManifest(file, doc, m, fetch) ==
    {[ok |-> TRUE, manifest |-> m, file |-> doc, fetch |-> fetch, write |-> "ok"],
     [ok |-> FALSE, error |-> "write manifest", file |-> file,
      fetch |-> fetch, write |-> "fail"],
     [ok |-> FALSE, error |-> "write manifest", file |-> TornFile,
      fetch |-> fetch, write |-> "torn"]}

\* a download for which a manifest that cannot be fetched is an error
download_manifest_FetchRequired(file) ==
    {[ok |-> FALSE, error |-> "create manifest directory", file |-> file,
      fetch |-> "none", write |-> "none"]}
    \cup {[ok |-> FALSE, error |-> "parse manifest", file |-> file,
           fetch |-> "ok", write |-> "none"]}
    \cup UNION {StoreManifest(file, doc, DeserializeManifest(doc), "ok") : doc \in RemoteDocs}
    \cup {[ok |-> FALSE, error |-> "fetch manifest", file |-> file,
           fetch |-> "failed", write |-> "none"]}

\* DefaultManifestService::download_manifest: the outcomes of the call.  The
\* downloaded text is written as it came (normalize_yaml strips a leading marker).
\* fetch: how http.fetch_text ended ("none": not called); write: how the
\* fs::write of the manifest path ended ("none": not called).
download_manifest(file) ==
    {[ok |-> FALSE, error |-> "create manifest directory", file |-> file,
      fetch |-> "none", write |-> "none"]}
    \cup {[ok |-> FALSE, error |-> "parse manifest", file |-> file,
           fetch |-> "ok", write |-> "none"]}
    \cup UNION {StoreManifest(file, doc, DeserializeManifest(doc), "ok") : doc \in RemoteDocs}
    \* the fetch failed: start with an empty manifest
    \cup StoreManifest(file, SerializeManifest(ManifestNew), ManifestNew, "failed")

\* the outcome of a hydration, with the number of fetches it made
Hydrated(o, fetches) ==
    IF o.ok THEN [ok |-> TRUE, files |-> o.files, fetches |-> fetches]
    ELSE [ok |-> FALSE, error |-> o.error, files |-> o.files, fetches |-> fetches]

\* a hydration that goes on to the next network when a fetch fails
RECURSIVE HydrateFrom_SkipFailed(_, _, _)
HydrateFrom_SkipFailed(fs, order, i) ==
    IF i > Len(order) THEN {Hydrated(Done(fs), i - 1)}
    ELSE {Hydrated(Fail(fs, "write dump"), i),
          Hydrated(Fail(Put(fs, order[i], "gz", "partial"), "write dump"), i)}
         \cup HydrateFrom_SkipFailed(fs, order, i + 1)
         \cup HydrateFrom_SkipFailed(Put(fs, order[i], "gz", "remote"), order, i + 1)

RECURSIVE HydrateFrom(_, _, _)
HydrateFrom(fs, order, i) ==
    IF i > Len(order) THEN {Hydrated(Done(fs), i - 1)}
    ELSE {Hydrated(Fail(fs, "fetch dump"), i),
          Hydrated(Fail(fs, "write dump"), i),
          Hydrated(Fail(Put(fs, order[i], "gz", "partial"), "write dump"), i)}
         \cup HydrateFrom(Put(fs, order[i], "gz", "remote"), order, i + 1)

\* DefaultManifestService::download_dumps: the outcomes of the call
download_dumps(fs, m) ==
    IF DOMAIN m.networks = {} THEN {Hydrated(Done(fs), 0)}
    ELSE {Hydrated(Fail(fs, "create database directory"), 0)}
         \cup HydrateFrom(fs, Ascending(DOMAIN m.networks), 1)

\* u64::MAX on the model's scale of block numbers: 0..MaxBlock are ordinary
\* blocks, the value above them is the largest value a u64 holds
U64_MAX == MaxBlock + 1

UpperCase == <<"A", "B", "C", "D", "E", "F", "G", "H", "I", "J", "K", "L", "M",
               "N", "O", "P", "Q", "R", "S", "T", "U", "V", "W", "X", "Y", "Z">>
LowerCase == <<"a", "b", "c", "d", "e", "f", "g", "h", "i", "j", "k", "l", "m",
               "n", "o", "p", "q", "r", "s", "t", "u", "v", "w", "x", "y", "z">>

\* a lowering that leaves every character as it is
to_lowercase_AsWritten(name) == name

\* str::to_lowercase, on names written as sequences of characters
to_lowercase(name) ==
    [k \in 1..Len(name) |->
        IF \E u \in 1..Len(UpperCase) : UpperCase[u] = name[k]
        THEN LowerCase[CHOOSE u \in 1..Len(UpperCase) : UpperCase[u] = name[k]]
        ELSE name[k]]

\* str::contains
contains(text, pattern) ==
    \E k \in 1..(Len(text) - Len(pattern) + 1) :
        SubSeq(text, k, k + Len(pattern) - 1) = pattern

\* the column names a sync_status table is declared with
ColumnNames ==
    {<<"i", "d">>,
     <<"b", "l", "o", "k">>,
     <<"L", "a", "s", "t", "B", "l", "o", "c", "k">>,
     <<"B", "L", "O", "C", "K", "_", "N", "U", "M", "B", "E", "R">>}

\* the declarations of a table: up to MaxColumns columns of different names
ColumnLists ==
    UNION {{cs \in [1..n -> ColumnNames] :
               \A i, j \in 1..n : i # j => cs[i] # cs[j]} : n \in 1..MaxColumns}

\* the text sqlite3 prints for the largest value of a column; "empty" is the
\* output for a table without rows
ColumnOutputs ==
    {[kind |-> "digits", value |-> v] : v \in 0..U64_MAX}
    \cup {[kind |-> "negative"], [kind |-> "text"]}
EmptyOutput == [kind |-> "empty"]

\* a parse that reads every text that is not a number as 0
parse_u64_Lenient(text) ==
    IF text.kind = "digits" THEN <<text.value>> ELSE <<0>>

\* value_str.parse::<u64>().ok()
parse_u64(text) == IF text.kind = "digits" THEN <<text.value>> ELSE <<>>

\* what a db file holds: no sync_status table, or the table with its columns
\* in declaration order and, for each column, the output of
\* SELECT "col" FROM sync_status ORDER BY "col" DESC LIMIT 1
DbContents ==
    {[table |-> FALSE]}
    \cup UNION {{[table |-> TRUE, columns |-> cs, top |-> t] :
                    t \in [1..Len(cs) -> ColumnOutputs]
                          \cup {[k \in 1..Len(cs) |-> EmptyOutput]}}
                : cs \in ColumnLists}

\* how the sqlite3 tool behaves: it works, or its query number `at` fails
\* (the binary is not found, another spawn error, a non-zero exit)
ToolFaults ==
    {[at |-> 0, how |-> "none"]}
    \cup {[at |-> q, how |-> h] : q \in 1..3, h \in {"notfound", "spawn", "exit"}}

InspectionInputs == {[db |-> d, tool |-> t] : d \in DbContents, t \in ToolFaults}

\* get_last_synced_block on a db file that exists, lines 233-312.  value: the
\* Option returned; queries: the sqlite3 invocations made; column: the index
\* of the column query 3 selects; missing: a spawn failed with NotFound.
SqliteInspection(i) ==
    LET stop(n) == [value |-> <<>>, invoked |-> TRUE, queries |-> n,
                    column |-> <<>>, missing |-> i.tool.how = "notfound"]
        none(n) == [value |-> <<>>, invoked |-> TRUE, queries |-> n,
                    column |-> <<>>, missing |-> FALSE]
        matching == {k \in 1..Len(i.db.columns) :
                        contains(to_lowercase(i.db.columns[k]),
                                 <<"b", "l", "o", "c", "k">>)}
        first == CHOOSE k \in matching : \A other \in matching : k <= other
    IN IF i.tool.at = 1 THEN stop(1)
       ELSE IF ~i.db.table THEN none(1)
       ELSE IF i.tool.at = 2 THEN stop(2)
       ELSE IF matching = {} THEN none(2)
       ELSE IF i.tool.at = 3 THEN stop(3)
       ELSE [value |-> parse_u64(i.db.top[first]), invoked |-> TRUE,
             queries |-> 3, column |-> <<first>>, missing |-> FALSE]

\* what the inspection of an existing snapshot may return
Inspections == {SqliteInspection(i) : i \in InspectionInputs}

\* a warning that is printed without the flag being stored
warn_if_sqlite_missing_NotStored(emitted, notFound) ==
    [emitted |-> emitted,
     printed |-> IF ~emitted /\ notFound THEN 1 ELSE 0]

\* warn_if_sqlite_missing; emitted: SQLITE_WARNING_EMITTED; notFound: the spawn
\* result is an error of kind NotFound.  Gives the flag and the lines printed.
warn_if_sqlite_missing(emitted, notFound) ==
    IF emitted THEN [emitted |-> TRUE, printed |-> 0]
    ELSE IF notFound THEN [emitted |-> TRUE, printed |-> 1]
    ELSE [emitted |-> FALSE, printed |-> 0]

\* an inspection that runs sqlite3 whether the db file exists or not
get_last_synced_block_AlwaysRun(fs, c, inspected) == inspected

\* get_last_synced_block; inspected: what the sqlite3 queries give for an
\* existing db (every failure of the tool or of the query is Ok(None)).
\* invoked: whether sqlite3 was run.
get_last_synced_block(fs, c, inspected) ==
    IF ~Exists(fs, c, "db")
    THEN [value |-> <<>>, invoked |-> FALSE, queries |-> 0, column |-> <<>>,
          missing |-> FALSE]
    ELSE inspected

\* plan_sync; inspected: the result of the inspection of an existing db;
\* overflowChecks: the build checks integer overflow (debug) or wraps
\* (release).  value + 1 on u64::MAX panics in the first and is 0 in the
\* second.
plan_sync(fs, c, inspected, overflowChecks) ==
    LET last == get_last_synced_block(fs, c, inspected).value
    IN IF last # <<>> /\ last[1] = U64_MAX /\ overflowChecks
       THEN [ok |-> FALSE, panic |-> "attempt to add with overflow"]
       ELSE [ok |-> TRUE,
             value |-> [last_synced_block |-> last,
                        next_start_block |->
                            IF last = <<>> THEN <<>>
                            ELSE <<(last[1] + 1) % (U64_MAX + 1)>>]]

\* run_cli_sync: the outcomes of the call.  The external process, once spawned,
\* may leave the db file as it is or write it, whatever its exit status.
run_cli_sync(fs, c) ==
    {Fail(fs, "create database directory"), Fail(fs, "spawn cli")}
    \cup {Fail(f, "cli exit status") : f \in {fs, Put(fs, c, "db", "synced")}}
    \cup {Done(f) : f \in {fs, Put(fs, c, "db", "synced")}}

\* the values a block bound of the options takes
Blocks == {<<>>} \cup {<<b>> : b \in 0..MaxBlock}
\* the values of the repo_commit option
RepoCommits == {Word("0123abc"), Word("--api-token")}

\* RunCliSyncOptions for every chain, with the given api token
CliOptions(token) ==
    {[cli_binary |-> Word("bin/cli"),
      db_path |-> Word("data/") \o to_string(c) \o Word(".db"),
      chain_id |-> c,
      api_token |-> <<token>>,
      repo_commit |-> commit,
      start_block |-> from,
      end_block |-> to] :
        c \in Chains, commit \in RepoCommits, from \in Blocks, to \in Blocks}

\* run_cli_sync lines 39-60: the arguments given to the CLI
args(options, api_token) ==
    <<Word("local-db"), Word("sync"),
      Word("--db-path"), options.db_path,
      Word("--chain-id"), to_string(options.chain_id),
      Word("--repo-commit"), options.repo_commit,
      Word("--api-token"), api_token>>
    \o (IF options.start_block = <<>> THEN <<>>
        ELSE <<Word("--start-block"), to_string(options.start_block[1])>>)
    \o (IF options.end_block = <<>> THEN <<>>
        ELSE <<Word("--end-block"), to_string(options.end_block[1])>>)

\* run_cli_sync lines 62-67: the arguments as they are printed
log_args(a) ==
    LET flags == {k \in 1..Len(a) : a[k] = Word("--api-token")}
    IN IF flags = {} THEN a
       ELSE LET index == CHOOSE k \in flags : \A other \in flags : k <= other
            IN IF index + 1 > Len(a) THEN a
               ELSE [a EXCEPT ![index + 1] = Word("***")]

\* run_cli_sync, what the call prints and what it spawns: the outcomes
RunCliSyncOutcomes(options) ==
    {[ok |-> FALSE, error |-> "create database directory",
      printed |-> <<>>, spawned |-> <<>>]}
    \cup
    (IF options.api_token = <<>>
     THEN {[ok |-> FALSE, error |-> "no API token", printed |-> <<>>, spawned |-> <<>>]}
     ELSE LET a == args(options, options.api_token[1])
          IN {[ok |-> FALSE, error |-> "spawn cli",
               printed |-> <<log_args(a)>>, spawned |-> <<>>],
              [ok |-> FALSE, error |-> "cli exit status",
               printed |-> <<log_args(a)>>, spawned |-> <<a>>],
              [ok |-> TRUE, error |-> "none",
               printed |-> <<log_args(a)>>, spawned |-> <<a>>]})

(***************************************************************************)
(* ManifestSpec: a single writer applies manifest store operations, one    *)
(* after the other, to a manifest file that starts absent, torn or as any  *)
(* document.                                                               *)
(***************************************************************************)
NoOp == [op |-> "none"]

\* The I/O fault that strikes an operation: none, the read of the manifest, the
\* opening of the manifest for writing, the write part-way, or the source file.
Faults == {"none", "read", "write", "torn"}
ReadOk(fault) == fault # "read"
WriteOutcome(fault) ==
    IF fault = "write" THEN "fail" ELSE IF fault = "torn" THEN "torn" ELSE "ok"

NoErr == [kind |-> "none", at |-> "none"]
NoSources == [manifest |-> {}, env |-> {}, config |-> {}]
NoPlan == [last_synced_block |-> <<>>, next_start_block |-> <<>>]
NoResult == [ok |-> TRUE, error |-> "none", at |-> "none"]
NoFiles == [p \in Paths |-> "none"]

\* the run variables before run_sync_with is entered
RunIdle ==
    /\ pc = "cli_url"
    /\ err = NoErr
    /\ log = <<>>
    /\ manifest = ManifestNew
    /\ sources = NoSources
    /\ chainIds = {}
    /\ cur = 0
    /\ apiToken = NoToken
    /\ plan = NoPlan
    /\ result = NoResult
    /\ clock = 0
    /\ SQLITE_WARNING_EMITTED = FALSE
    /\ warnings = 0

ManifestInit ==
    /\ manifestFile \in {AbsentFile, TornFile} \cup InitDocs
    /\ sourceConst = CURRENT_SCHEMA_VERSION
    /\ lastOp = NoOp
    /\ files = NoFiles
    /\ RunIdle

\* the stored seed_generation of a network, 0 when the file gives none
StoredGeneration(file, n) ==
    IF file.kind = "doc" /\ n \in DOMAIN file.networks
    THEN DeserializeEntry(file.networks[n]).seed_generation
    ELSE 0

UpdateManifest ==
    \E n \in Chains, fault \in Faults :
        LET ts == CommitTime
            r == update_manifest(manifestFile, n, ReleaseUrl(n), ts,
                                 ReadOk(fault), WriteOutcome(fault)) IN
        /\ manifestFile' = r.file
        /\ lastOp' = [op |-> "update_manifest", network_id |-> n,
                      timestamp |-> ts, before |-> manifestFile,
                      result |-> [r EXCEPT !.file = 0]]
        /\ UNCHANGED <<sourceConst, runVars>>

BumpSeedGeneration ==
    \E n \in Chains, fault \in Faults :
        /\ StoredGeneration(manifestFile, n) <= MaxGen
        /\ LET r == bump_seed_generation(manifestFile, n,
                                         ReadOk(fault), WriteOutcome(fault)) IN
           /\ manifestFile' = r.file
           /\ lastOp' = [op |-> "bump_seed_generation", network_id |-> n,
                         timestamp |-> 0, before |-> manifestFile,
                         result |-> [r EXCEPT !.file = 0]]
        /\ UNCHANGED <<sourceConst, runVars>>

\* the I/O on the source file under a fault
SourceIo(fault) ==
    IF fault = "source" THEN "fail" ELSE IF fault = "source_torn" THEN "torn" ELSE "ok"

BumpSchemaVersion ==
    \E fault \in Faults \cup {"source", "source_torn"} :
        /\ manifestFile.kind = "doc" => manifestFile.schema_version <= MaxVersion
        /\ LET r == bump_schema_version(manifestFile, sourceConst, ReadOk(fault),
                                        WriteOutcome(fault), SourceIo(fault)) IN
           /\ manifestFile' = r.file
           /\ sourceConst' = r.src
           /\ lastOp' = [op |-> "bump_schema_version", network_id |-> 0,
                         timestamp |-> 0, before |-> manifestFile,
                         source |-> sourceConst,
                         result |-> [r EXCEPT !.file = 0, !.src = 0]]
        /\ UNCHANGED runVars

ManifestNext == UpdateManifest \/ BumpSeedGeneration \/ BumpSchemaVersion

ManifestSpec == ManifestInit /\ [][ManifestNext]_vars

(***************************************************************************)
(* WritersSpec: two writers work on the same manifest path without any     *)
(* lock.  Each performs one update_manifest or one bump_seed_generation,   *)
(* in two steps: the load with the change made in memory, and the write of *)
(* the changed manifest.  The steps of the two writers interleave freely.  *)
(***************************************************************************)
Writers == {1, 2}

\* update_manifest up to the call of write_manifest: the manifest to be written
LoadForUpdate(file, network_id, dump_url, timestamp, readOk) ==
    LET loaded == load_manifest(file, readOk) IN
    IF ~loaded.ok THEN Err(loaded.error)
    ELSE IF loaded.value.schema_version # CURRENT_SCHEMA_VERSION
    THEN Err([kind |-> "schema_mismatch",
              found |-> loaded.value.schema_version,
              expected |-> CURRENT_SCHEMA_VERSION])
    ELSE Ok(UpsertEntry(loaded.value, network_id, dump_url, timestamp))

\* bump_seed_generation up to the call of write_manifest
LoadForBump(file, network_id, readOk) ==
    LET loaded == load_manifest(file, readOk) IN
    IF ~loaded.ok THEN Err(loaded.error)
    ELSE IF network_id \notin DOMAIN loaded.value.networks
    THEN Err([kind |-> "not_found", network_id |-> network_id])
    ELSE LET previous == loaded.value.networks[network_id].seed_generation
             next == previous + 1
         IN Ok([loaded.value EXCEPT !.networks[network_id].seed_generation = next])

WriterOps == {"update_manifest", "bump_seed_generation"}

\* what a writer holds between its two steps
WriterIdle == [pc |-> "idle"]

WritersInit ==
    /\ manifestFile \in {AbsentFile, TornFile} \cup InitDocs
    /\ sourceConst = CURRENT_SCHEMA_VERSION
    /\ lastOp = [w \in Writers |-> WriterIdle]
    /\ files = NoFiles
    /\ RunIdle

\* the first half of the operation of writer w
WriterLoad(w) ==
    \E op \in WriterOps, n \in Chains, readOk \in BOOLEAN :
        LET ts == CommitTime
            loaded == IF op = "update_manifest"
                      THEN LoadForUpdate(manifestFile, n, ReleaseUrl(n), ts, readOk)
                      ELSE LoadForBump(manifestFile, n, readOk)
        IN /\ lastOp[w].pc = "idle"
           /\ lastOp' = [lastOp EXCEPT ![w] =
                  [pc |-> IF loaded.ok THEN "loaded" ELSE "failed",
                   op |-> op, network_id |-> n, timestamp |-> ts,
                   before |-> manifestFile,
                   loaded |-> loaded]]
           /\ log' = Append(log, [writer |-> w, step |-> "load", ok |-> loaded.ok])
           /\ UNCHANGED <<manifestFile, sourceConst, pc, err, files, manifest, sources,
                          chainIds, cur, apiToken, plan, result, clock, warnVars>>

\* a second half that takes the file as it is now, as under a lock
WriterWrite_Reloading(w) ==
    \E o \in WriteOutcomes :
        LET mine == lastOp[w]
            r == IF mine.op = "update_manifest"
                 THEN update_manifest(manifestFile, mine.network_id,
                                      ReleaseUrl(mine.network_id), mine.timestamp,
                                      TRUE, o)
                 ELSE bump_seed_generation(manifestFile, mine.network_id, TRUE, o)
        IN /\ mine.pc = "loaded"
           /\ manifestFile' = r.file
           /\ lastOp' = [lastOp EXCEPT ![w].pc = IF r.ok THEN "written" ELSE "failed"]
           /\ log' = Append(log, [writer |-> w, step |-> "write", ok |-> r.ok])
           /\ UNCHANGED <<sourceConst, pc, err, files, manifest, sources,
                          chainIds, cur, apiToken, plan, result, clock, warnVars>>

\* the second half: write_manifest of the manifest changed in memory
WriterWrite(w) ==
    \E o \in WriteOutcomes :
        LET mine == lastOp[w]
            r == write_manifest(manifestFile, mine.loaded.value, o)
        IN /\ mine.pc = "loaded"
           /\ manifestFile' = r.file
           /\ lastOp' = [lastOp EXCEPT ![w].pc = IF r.ok THEN "written" ELSE "failed"]
           /\ log' = Append(log, [writer |-> w, step |-> "write", ok |-> r.ok])
           /\ UNCHANGED <<sourceConst, pc, err, files, manifest, sources,
                          chainIds, cur, apiToken, plan, result, clock, warnVars>>

WritersNext == \E w \in Writers : WriterLoad(w) \/ WriterWrite(w)

WritersSpec == WritersInit /\ [][WritersNext]_vars

(***************************************************************************)
(* DatabaseSpec: the database operations are applied, one after the other, *)
(* to the files of one chain, in a directory where earlier runs may have   *)
(* left any of the chain's files.                                          *)
(***************************************************************************)
\* the directories an operation on chain c may find
FoundFiles(c) ==
    {f \in [Paths -> {"none", "stale", "remote"}] :
        \A p \in Paths : /\ f[p] = "remote" => p[2] = "gz"
                         /\ f[p] = "stale" => p[2] # "gz"
                         /\ f[p] # "none" => p[1] = c}

DatabaseInit ==
    /\ manifestFile = AbsentFile
    /\ sourceConst = CURRENT_SCHEMA_VERSION
    /\ lastOp = NoOp
    /\ files \in FoundFiles(Min(Chains))
    /\ pc = "cli_url" /\ err = NoErr /\ log = <<>> /\ manifest = ManifestNew
    /\ sources = NoSources /\ chainIds = {} /\ apiToken = NoToken
    /\ plan = NoPlan /\ result = NoResult /\ clock = 0
    /\ SQLITE_WARNING_EMITTED = FALSE /\ warnings = 0
    /\ cur = Min(Chains)

\* the result of a database operation, without the files
Outcome(o) == IF o.ok THEN [ok |-> TRUE] ELSE [ok |-> FALSE, error |-> o.error]

PrepareDatabase ==
    /\ \E o \in prepare_database(files, cur) :
          /\ files' = o.files
          /\ lastOp' = [op |-> "prepare_database", chain |-> cur,
                        before |-> files, result |-> Outcome(o)]
    /\ UNCHANGED <<warnVars, manifestFile, sourceConst, pc, err, log, manifest, sources,
                   chainIds, cur, apiToken, plan, result, clock>>

PlanSync ==
    /\ \E inspected \in Inspections, overflowChecks \in BOOLEAN :
          LET seen == get_last_synced_block(files, cur, inspected)
              warned == warn_if_sqlite_missing(SQLITE_WARNING_EMITTED, seen.missing)
          IN /\ lastOp' = [op |-> "plan_sync", chain |-> cur, before |-> files,
                           result |-> plan_sync(files, cur, inspected, overflowChecks),
                           invoked |-> seen.invoked,
                           missing |-> seen.missing,
                           emitted |-> SQLITE_WARNING_EMITTED]
             /\ SQLITE_WARNING_EMITTED' = warned.emitted
             /\ warnings' = warnings + warned.printed
    /\ UNCHANGED <<manifestFile, sourceConst, pc, err, log, files, manifest,
                   sources, chainIds, cur, apiToken, plan, result, clock>>

RunCliSync ==
    /\ \E o \in run_cli_sync(files, cur) :
          /\ files' = o.files
          /\ lastOp' = [op |-> "run_cli_sync", chain |-> cur,
                        before |-> files, result |-> Outcome(o)]
    /\ UNCHANGED <<warnVars, manifestFile, sourceConst, pc, err, log, manifest, sources,
                   chainIds, cur, apiToken, plan, result, clock>>

FinalizeDatabase ==
    /\ \E o \in finalize_database(files, cur) :
          /\ files' = o.files
          /\ lastOp' = [op |-> "finalize_database", chain |-> cur,
                        before |-> files, result |-> Outcome(o)]
    /\ UNCHANGED <<warnVars, manifestFile, sourceConst, pc, err, log, manifest, sources,
                   chainIds, cur, apiToken, plan, result, clock>>

DatabaseNext == PrepareDatabase \/ PlanSync \/ RunCliSync \/ FinalizeDatabase

DatabaseSpec == DatabaseInit /\ [][DatabaseNext]_vars

(***************************************************************************)
(* CliSpec: the run reads the api token from its environment, then reads   *)
(* the chain id list and invokes the CLI, any number of times.             *)
(***************************************************************************)
CliInit ==
    /\ manifestFile = AbsentFile
    /\ sourceConst = CURRENT_SCHEMA_VERSION
    /\ lastOp = NoOp
    /\ files = NoFiles
    /\ RunIdle

\* run_sync line 46: resolve_api_token
CliResolveApiToken ==
    /\ lastOp = NoOp
    /\ \E env \in TokenEnvs :
          LET r == resolve_api_token(env)
          IN /\ lastOp' = [op |-> "resolve_api_token", env |-> env, result |-> r]
             /\ apiToken' = IF r.ok THEN r.value ELSE apiToken
    /\ UNCHANGED <<manifestFile, sourceConst, pc, err, log, files, manifest, sources,
                   chainIds, cur, plan, result, clock, warnVars>>

\* determine_chain_ids: parse_chain_ids_from_env
CliParseChainIds ==
    /\ apiToken # NoToken
    /\ \E raw \in EnvLists :
          lastOp' = [op |-> "parse_chain_ids_from_env", raw |-> raw,
                     result |-> parse_chain_ids_from_env(raw)]
    /\ UNCHANGED <<manifestFile, sourceConst, runVars>>

\* sync_single_chain lines 122-130: cli_runner.run with the resolved token
\* (the orchestrator passes no end block, another caller may)
CliRunCliSync ==
    /\ apiToken # NoToken
    /\ \E options \in CliOptions(apiToken) :
          \E o \in RunCliSyncOutcomes(options) :
             lastOp' = [op |-> "run_cli_sync", options |-> options, result |-> o]
    /\ UNCHANGED <<manifestFile, sourceConst, runVars>>

CliNext == CliResolveApiToken \/ CliParseChainIds \/ CliRunCliSync

CliSpec == CliInit /\ [][CliNext]_vars

(***************************************************************************)
(* PlannerSpec: the planner is applied once to a db file of any content,   *)
(* with a sqlite3 tool of any behaviour.                                   *)
(***************************************************************************)
\* a directory without files, or with the db file of the chain
PlannerFiles == {NoFiles, Put(NoFiles, Min(Chains), "db", "stale")}

PlannerInit ==
    /\ manifestFile = AbsentFile
    /\ sourceConst = CURRENT_SCHEMA_VERSION
    /\ files \in PlannerFiles
    /\ \E i \in InspectionInputs : lastOp = [op |-> "input", input |-> i]
    /\ pc = "cli_url" /\ err = NoErr /\ log = <<>> /\ manifest = ManifestNew
    /\ sources = NoSources /\ chainIds = {} /\ apiToken = NoToken
    /\ plan = NoPlan /\ result = NoResult /\ clock = 0
    /\ SQLITE_WARNING_EMITTED = FALSE /\ warnings = 0
    /\ cur = Min(Chains)

\* plan_sync on the db file and the tool drawn by PlannerInit
PlannerPlanSync ==
    /\ lastOp.op = "input"
    /\ \E overflowChecks \in BOOLEAN :
          LET inspected == SqliteInspection(lastOp.input)
              seen == get_last_synced_block(files, cur, inspected)
              warned == warn_if_sqlite_missing(SQLITE_WARNING_EMITTED, seen.missing)
          IN /\ lastOp' = [op |-> "plan_sync", chain |-> cur, before |-> files,
                           input |-> lastOp.input,
                           inspection |-> seen,
                           result |-> plan_sync(files, cur, inspected, overflowChecks)]
             /\ SQLITE_WARNING_EMITTED' = warned.emitted
             /\ warnings' = warnings + warned.printed
    /\ UNCHANGED <<manifestFile, sourceConst, pc, err, log, files, manifest,
                   sources, chainIds, cur, apiToken, plan, result, clock>>

PlannerNext == PlannerPlanSync

PlannerSpec == PlannerInit /\ [][PlannerNext]_vars

(***************************************************************************)
(* Spec: one run of run_sync_with with the default services.  A step is    *)
(* one collaborator call or one resolution of an input; the environment    *)
(* and the configuration are immutable, so an input is drawn where the     *)
(* code reads it.                                                          *)
(***************************************************************************)
\* A crashed earlier run leaves working files of the one chain it was on.
StaleFiles ==
    {NoFiles}
    \cup {[p \in Paths |-> IF p = <<c, "db">> THEN db
                            ELSE IF p = <<c, "sql">> THEN sql ELSE "none"] :
            c \in Chains, db \in {"none", "stale"}, sql \in {"none", "stale"}}

Init ==
    /\ manifestFile = AbsentFile
    /\ sourceConst = CURRENT_SCHEMA_VERSION
    /\ lastOp = NoOp
    /\ files \in StaleFiles
    /\ RunIdle

Call(op, chain, ok) == [op |-> op, chain |-> chain, ok |-> ok]
Goto(step) == pc' = step /\ err' = err
Abort(kind) == pc' = "failed" /\ err' = [kind |-> kind, at |-> pc]

\* lines 21-32: start_time, CLI_BINARY_URL
ResolveCliUrl ==
    /\ pc = "cli_url"
    /\ clock' = clock + 1
    /\ \E v \in EnvValues :
          IF Present(v) THEN Goto("settings") ELSE Abort("cli_binary_url")
    /\ UNCHANGED <<warnVars, manifestVars, log, files, manifest, sources, chainIds, cur,
                   apiToken, plan, result>>

\* resolve_settings_yaml: SETTINGS_YAML, then http.fetch_text
ResolveSettings ==
    /\ pc = "settings"
    /\ \E v \in EnvValues, fetched \in BOOLEAN :
          IF ~Present(v)
          THEN Abort("settings_yaml") /\ log' = log
          ELSE /\ log' = Append(log, Call("fetch_settings", 0, fetched))
               /\ IF fetched THEN Goto("download_archive") ELSE Abort("fetch_settings")
    /\ UNCHANGED <<warnVars, manifestVars, files, manifest, sources, chainIds, cur,
                   apiToken, plan, result, clock>>

\* archive.download_archive
DownloadArchive ==
    /\ pc = "download_archive"
    /\ \E ok \in BOOLEAN :
          /\ log' = Append(log, Call("download_archive", 0, ok))
          /\ IF ok THEN Goto("extract") ELSE Abort("download_archive")
    /\ UNCHANGED <<warnVars, manifestVars, files, manifest, sources, chainIds, cur,
                   apiToken, plan, result, clock>>

\* a run that takes the binary of an earlier run instead of extracting one
ExtractBinary_Skipped ==
    /\ pc = "extract"
    /\ Goto("api_token")
    /\ UNCHANGED <<warnVars, manifestVars, log, files, manifest, sources, chainIds, cur,
                   apiToken, plan, result, clock>>

\* archive.extract_binary, then the best-effort removal of the archive
ExtractBinary ==
    /\ pc = "extract"
    /\ \E ok \in BOOLEAN :
          /\ log' = Append(log, Call("extract_binary", 0, ok))
          /\ IF ok THEN Goto("api_token") ELSE Abort("extract_binary")
    /\ UNCHANGED <<warnVars, manifestVars, files, manifest, sources, chainIds, cur,
                   apiToken, plan, result, clock>>

\* resolve_api_token
ResolveApiToken ==
    /\ pc = "api_token"
    /\ \E env \in TokenEnvs :
          LET r == resolve_api_token(env) IN
          IF r.ok THEN Goto("db_dir") /\ apiToken' = r.value
          ELSE Abort(r.error) /\ apiToken' = apiToken
    /\ UNCHANGED <<warnVars, manifestVars, log, files, manifest, sources, chainIds, cur,
                   plan, result, clock>>

\* fs::create_dir_all(db_dir)
CreateDbDir ==
    /\ pc = "db_dir"
    /\ \E ok \in BOOLEAN :
          /\ log' = Append(log, Call("create_db_dir", 0, ok))
          /\ IF ok THEN Goto("manifest") ELSE Abort("create_db_dir")
    /\ UNCHANGED <<warnVars, manifestVars, files, manifest, sources, chainIds, cur,
                   apiToken, plan, result, clock>>

\* manifest.download_manifest
DownloadManifest ==
    /\ pc = "manifest"
    /\ \E o \in download_manifest(manifestFile) :
          /\ manifestFile' = o.file
          /\ log' = Append(log, [op |-> "download_manifest", chain |-> 0, ok |-> o.ok,
                                 fetch |-> o.fetch, write |-> o.write])
          /\ IF o.ok THEN Goto("dumps") /\ manifest' = o.manifest
             ELSE Abort("download_manifest") /\ manifest' = manifest
    /\ UNCHANGED <<warnVars, sourceConst, lastOp, files, sources, chainIds, cur,
                   apiToken, plan, result, clock>>

\* a hydration whose error is dropped
DownloadDumps_ErrorDropped ==
    /\ pc = "dumps"
    /\ \E o \in download_dumps(files, manifest) :
          /\ files' = o.files
          /\ log' = Append(log, [op |-> "download_dumps", chain |-> 0, ok |-> o.ok,
                                 fetches |-> o.fetches])
          /\ Goto("chain_ids")
    /\ UNCHANGED <<warnVars, manifestVars, manifest, sources, chainIds, cur,
                   apiToken, plan, result, clock>>

\* manifest.download_dumps
DownloadDumps ==
    /\ pc = "dumps"
    /\ \E o \in download_dumps(files, manifest) :
          /\ files' = o.files
          /\ log' = Append(log, [op |-> "download_dumps", chain |-> 0, ok |-> o.ok,
                                 fetches |-> o.fetches])
          /\ IF o.ok THEN Goto("chain_ids") ELSE Abort("download_dumps")
    /\ UNCHANGED <<warnVars, manifestVars, manifest, sources, chainIds, cur,
                   apiToken, plan, result, clock>>

\* The BTreeSet of the chain ids of the manifest, the environment and the
\* configuration
UnionOfSources(src) == src.manifest \cup src.env \cup src.config

\* lines 68-79 and 91-100: the network set, then the first chain or completion
DetermineChainIds ==
    /\ pc = "chain_ids"
    /\ \E raw \in EnvLists, config \in SUBSET Chains :
          LET parsed == parse_chain_ids_from_env(raw) IN
          IF ~parsed.ok
          THEN /\ Abort("chain_ids")
               /\ UNCHANGED <<warnVars, sources, chainIds, cur, clock>>
          ELSE LET src == [manifest |-> DOMAIN manifest.networks,
                           env |-> Range(parsed.value),
                           config |-> config]
                   ids == UnionOfSources(src)
               IN /\ sources' = src
                  /\ chainIds' = ids
                  /\ IF ids = {}
                     THEN Goto("done") /\ cur' = cur /\ clock' = clock + 1
                     ELSE Goto("prepare") /\ cur' = Min(ids) /\ clock' = clock
    /\ UNCHANGED <<warnVars, manifestVars, log, files, manifest, apiToken, plan, result>>

\* sync_single_chain lines 112-116: chain_start, database.prepare_database; an
\* error is returned at once
Prepare ==
    /\ pc = "prepare"
    /\ clock' = clock + 1
    /\ \E o \in prepare_database(files, cur) :
          /\ files' = o.files
          /\ log' = Append(log, Call("prepare", cur, o.ok))
          /\ IF o.ok THEN Goto("plan") ELSE Abort(o.error)
    /\ UNCHANGED <<warnVars, manifestVars, manifest, sources, chainIds, cur, apiToken,
                   plan, result>>

\* the closure, lines 118-120: database.plan_sync.  DatabaseManager::plan_sync
\* returns a Result: the default implementation always returns a plan, another
\* implementation of the trait may return an error.
Plan ==
    /\ pc = "plan"
    /\ \E planned \in BOOLEAN :
          IF planned
          THEN \E inspected \in Inspections, overflowChecks \in BOOLEAN :
                  LET seen == get_last_synced_block(files, cur, inspected)
                      warned == warn_if_sqlite_missing(SQLITE_WARNING_EMITTED,
                                                       seen.missing)
                      made == plan_sync(files, cur, inspected, overflowChecks)
                  IN /\ SQLITE_WARNING_EMITTED' = warned.emitted
                     /\ warnings' = warnings + warned.printed
                     /\ log' = Append(log, Call("plan", cur, made.ok))
                     /\ result' = result
                     /\ IF made.ok
                        THEN plan' = made.value /\ Goto("invoke")
                        \* the panic of value + 1 ends the process
                        ELSE plan' = plan /\ Abort("panic")
          ELSE /\ log' = Append(log, Call("plan", cur, FALSE))
               /\ plan' = plan
               /\ Goto("cleanup")
               /\ result' = [ok |-> FALSE, error |-> "plan", at |-> pc]
               /\ UNCHANGED warnVars
    /\ UNCHANGED <<manifestVars, files, manifest, sources, chainIds, cur,
                   apiToken, clock>>

\* options whose start bound is the last block of the plan
SyncOptions_FromLastBlock(c, token, planned) ==
    [cli_binary |-> Word("bin/cli"),
     db_path |-> Word("data/") \o to_string(c) \o Word(".db"),
     chain_id |-> c,
     api_token |-> <<token>>,
     settings_yaml |-> Word("settings"),
     start_block |-> planned.last_synced_block,
     end_block |-> <<>>]

\* lines 122-130: the RunCliSyncOptions sync_single_chain builds
SyncOptions(c, token, planned) ==
    [cli_binary |-> Word("bin/cli"),
     db_path |-> Word("data/") \o to_string(c) \o Word(".db"),
     chain_id |-> c,
     api_token |-> <<token>>,
     settings_yaml |-> Word("settings"),
     start_block |-> planned.next_start_block,
     end_block |-> <<>>]

\* the closure, lines 122-130: cli_runner.run.  lastOp holds the options of
\* the call until the closure's result has been looked at.
Invoke ==
    /\ pc = "invoke"
    /\ lastOp' = [op |-> "run_cli_sync", options |-> SyncOptions(cur, apiToken, plan)]
    /\ \E o \in run_cli_sync(files, cur) :
          /\ files' = o.files
          /\ log' = Append(log, Call("invoke", cur, o.ok))
          /\ IF o.ok THEN Goto("finalize") /\ result' = result
             ELSE Goto("cleanup")
                  /\ result' = [ok |-> FALSE, error |-> o.error, at |-> pc]
    /\ UNCHANGED <<warnVars, manifestFile, sourceConst, manifest, sources, chainIds, cur, apiToken,
                   plan, clock>>

\* the closure, lines 132-135: database.finalize_database
Finalize ==
    /\ pc = "finalize"
    /\ \E o \in finalize_database(files, cur) :
          /\ files' = o.files
          /\ log' = Append(log, Call("finalize", cur, o.ok))
          /\ result' = IF o.ok THEN NoResult
                       ELSE [ok |-> FALSE, error |-> o.error, at |-> pc]
    /\ Goto("cleanup")
    /\ UNCHANGED <<warnVars, manifestVars, manifest, sources, chainIds, cur, apiToken,
                   plan, clock>>

\* lines 142-144: the leftover db file is removed, errors dropped
CleanupFiles(fs, c) ==
    IF Exists(fs, c, "db") THEN BestEffortRemove(fs, c, "db") ELSE {fs}

\* a cleanup after which the closure's result is not looked at
Cleanup_ResultDropped ==
    /\ pc = "cleanup"
    /\ files' \in CleanupFiles(files, cur)
    /\ Goto("commit")
    /\ plan' = NoPlan
    /\ result' = NoResult
    /\ lastOp' = NoOp
    /\ UNCHANGED <<warnVars, manifestFile, sourceConst, log, manifest, sources, chainIds,
                   cur, apiToken, clock>>

\* a cleanup after which a failed network is started again
Cleanup_Retried ==
    /\ pc = "cleanup"
    /\ files' \in CleanupFiles(files, cur)
    /\ IF result.ok THEN Goto("commit") ELSE Goto("prepare")
    /\ plan' = NoPlan
    /\ result' = NoResult
    /\ lastOp' = NoOp
    /\ UNCHANGED <<warnVars, manifestFile, sourceConst, log, manifest, sources, chainIds,
                   cur, apiToken, clock>>

\* lines 138-146: cleanup, then the closure's result is propagated
Cleanup ==
    /\ pc = "cleanup"
    /\ files' \in CleanupFiles(files, cur)
    /\ IF result.ok THEN Goto("commit")
       ELSE pc' = "failed" /\ err' = [kind |-> result.error, at |-> result.at]
    /\ plan' = NoPlan
    /\ result' = NoResult
    /\ lastOp' = NoOp
    /\ UNCHANGED <<warnVars, manifestFile, sourceConst, log, manifest, sources, chainIds,
                   cur, apiToken, clock>>

\* a loop that ends after its first chain
Remaining_NoneLeft(ids, c) == {}

\* a loop that only skips the chain it has just finished
Remaining_AllOthers(ids, c) == {n \in ids : n # c}

\* the chains of the set still to come after chain c
Remaining(ids, c) == {n \in ids : n > c}

\* lines 148-172: completion_time, manifest.update_manifest; then the next chain
\* of the loop, or lines 91-100
Commit ==
    /\ pc = "commit"
    /\ \E fault \in Faults :
          LET r == update_manifest(manifestFile, cur, ReleaseUrl(cur), clock + 1,
                                   ReadOk(fault), WriteOutcome(fault))
              rest == Remaining(chainIds, cur)
          IN /\ manifestFile' = r.file
             /\ log' = Append(log, Call("commit", cur, r.ok))
             /\ IF ~r.ok
                THEN Abort(r.error.kind) /\ cur' = cur /\ clock' = clock + 1
                ELSE IF rest = {}
                THEN Goto("done") /\ cur' = cur /\ clock' = clock + 2
                ELSE Goto("prepare") /\ cur' = Min(rest) /\ clock' = clock + 1
    /\ UNCHANGED <<warnVars, sourceConst, lastOp, files, manifest, sources, chainIds,
                   apiToken, plan, result>>

Next ==
    \/ ResolveCliUrl \/ ResolveSettings \/ DownloadArchive \/ ExtractBinary
    \/ ResolveApiToken \/ CreateDbDir \/ DownloadManifest \/ DownloadDumps
    \/ DetermineChainIds
    \/ Prepare \/ Plan \/ Invoke \/ Finalize \/ Cleanup \/ Commit

Spec == Init /\ [][Next]_vars

\* a run that starts in a directory without leftovers of an earlier run
CleanInit ==
    /\ manifestFile = AbsentFile
    /\ sourceConst = CURRENT_SCHEMA_VERSION
    /\ lastOp = NoOp
    /\ files = NoFiles
    /\ RunIdle

\* The run is synchronous, single-threaded code: when every collaborator call
\* returns, the step the run is at is taken.
FairSpec == CleanInit /\ [][Next]_vars /\ WF_vars(Next)

(***************************************************************************)
(* Reading the log.                                                        *)
(***************************************************************************)
\* the order of the calls sync_single_chain makes for one chain
CycleOps == <<"prepare", "plan", "invoke", "finalize", "commit">>

\* the calls made for chains (not for the run as a whole), in order
ChainCalls == LET isChain(e) == e.chain # 0 IN SelectSeq(log, isChain)
\* the calls made for chain c, in order
CallsOf(c) == LET isOf(e) == e.chain = c IN SelectSeq(log, isOf)
OpsOf(c) == [i \in 1..Len(CallsOf(c)) |-> CallsOf(c)[i].op]
PrepareCalls == LET isPrepare(e) == e.op = "prepare" IN SelectSeq(log, isPrepare)
IsPrefix(s, t) == Len(s) <= Len(t) /\ \A i \in 1..Len(s) : s[i] = t[i]

(***************************************************************************)
(* C1.  One run processes exactly the union of the network ids of the      *)
(* loaded manifest, of SyncConfig.chain_ids and of the environment list:   *)
(* no call is made for an id outside the union, the cycles are started in  *)
(* strictly ascending id order (so each id at most once), the calls of two *)
(* networks never interleave, a network is started only when every smaller *)
(* one has gone through its whole cycle, and a run that completes has made *)
(* exactly one full cycle for every id of the union.                       *)
(***************************************************************************)
C1_ProcessesUnionAscending ==
    LET union == DOMAIN manifest.networks \cup sources.env \cup sources.config IN
    /\ (Len(ChainCalls) > 0 \/ pc = "done") => chainIds = union
    /\ \A i \in 1..Len(ChainCalls) : ChainCalls[i].chain \in union
    /\ \A i, j \in 1..Len(ChainCalls) :
          i < j => ChainCalls[i].chain <= ChainCalls[j].chain
    /\ \A i, j \in 1..Len(PrepareCalls) :
          i < j => PrepareCalls[i].chain < PrepareCalls[j].chain
    /\ \A c \in union, i \in 1..Len(ChainCalls) :
          c < ChainCalls[i].chain => OpsOf(c) = CycleOps
    /\ pc = "done" => \A c \in union : OpsOf(c) = CycleOps

\* a completed run of two networks, one of them named by two sources
C1_Witness ==
    /\ pc = "done"
    /\ chainIds = {10, 20}
    /\ 10 \in DOMAIN manifest.networks /\ 10 \in sources.config
    /\ 20 \in sources.env /\ 20 \notin DOMAIN manifest.networks

(***************************************************************************)
(* C2.  Fail-fast: when the cycle of network k has failed (in Prepare,     *)
(* Plan, Invoke, Finalize or Commit), no call has been made for a network  *)
(* after k, the run has returned k's error, the entries committed earlier  *)
(* in the run for the networks before k are in the manifest, and no entry  *)
(* has been committed for k.                                               *)
(***************************************************************************)
C2_FailFast ==
    LET committed(c) ==
            /\ manifestFile.kind = "doc"
            /\ c \in DOMAIN manifestFile.networks
            /\ manifestFile.networks[c].dump_url = ReleaseUrl(c)
    IN (pc = "failed" /\ cur # 0) =>
          /\ err.kind # "none"
          /\ err.at \in {"prepare", "plan", "invoke", "finalize", "commit"}
          /\ \A i \in 1..Len(ChainCalls) : ChainCalls[i].chain <= cur
          /\ \A c \in chainIds : c < cur => committed(c)
          /\ ~committed(cur)

(***************************************************************************)
(* C3.  When obtaining or extracting the sync tool (Acquire), downloading  *)
(* or parsing the remote manifest (Load) or downloading a snapshot         *)
(* (Hydrate) fails, the run has stopped with that step's error, the failed *)
(* call is the last one made, and no call (Prepare or any later step) has  *)
(* been made for any network.                                              *)
(***************************************************************************)
C3_NoNetworkAfterEarlyFailure ==
    LET stepOf == [download_archive |-> "download_archive",
                   extract_binary |-> "extract",
                   download_manifest |-> "manifest",
                   download_dumps |-> "dumps"]
    IN \A i \in 1..Len(log) :
          (log[i].op \in DOMAIN stepOf /\ ~log[i].ok) =>
             /\ pc = "failed"
             /\ err.at = stepOf[log[i].op]
             /\ i = Len(log)
             /\ ChainCalls = <<>>
             /\ cur = 0

\* hydration failed for a manifest that lists both networks
C3_Witness ==
    /\ pc = "failed"
    /\ err.at = "dumps"
    /\ DOMAIN manifest.networks = Chains
    /\ ~log[Len(log)].ok

(***************************************************************************)
(* C4.  The calls made for a network are a prefix of Prepare, Plan,        *)
(* Invoke, Finalize, Commit, in that order, and every call but the last    *)
(* one made so far succeeded: a step runs only if all earlier steps of the *)
(* network succeeded, so the entry is committed only after finalize has    *)
(* returned success and the external process is invoked only after a plan  *)
(* has been computed.                                                      *)
(***************************************************************************)
C4_StepOrder ==
    \A c \in Chains :
       /\ IsPrefix(OpsOf(c), CycleOps)
       /\ \A i \in 1..Len(CallsOf(c)) : i < Len(CallsOf(c)) => CallsOf(c)[i].ok
       /\ (pc = "invoke" /\ cur = c) =>
             OpsOf(c) = SubSeq(CycleOps, 1, 2) /\ CallsOf(c)[2].ok
       /\ (pc = "commit" /\ cur = c) =>
             OpsOf(c) = SubSeq(CycleOps, 1, 4) /\ CallsOf(c)[4].ok

\* the first network went through its whole cycle and finalize failed for the second
C4_Witness ==
    /\ pc = "failed"
    /\ OpsOf(10) = CycleOps
    /\ OpsOf(20) = SubSeq(CycleOps, 1, 4)
    /\ ~CallsOf(20)[4].ok

(***************************************************************************)
(* C5.  Cleanup on every path: once the result of a started network has    *)
(* been propagated to the run (on success the run goes on to Commit, on a  *)
(* failure at Prepare, Plan, Invoke or Finalize the run has failed), the   *)
(* network's working file <id>.db does not exist; and after a run,         *)
(* completed or failed, no network of the effective set has a working      *)
(* file.                                                                   *)
(***************************************************************************)
C5_CleanupOnEveryPath ==
    /\ (pc \in {"commit", "failed", "done"} /\ cur # 0) => ~Exists(files, cur, "db")
    /\ pc \in {"failed", "done"} => \A c \in chainIds : ~Exists(files, c, "db")

(***************************************************************************)
(* C6.  A configuration error (CLI_BINARY_URL or SETTINGS_YAML missing or  *)
(* blank, no non-empty api token under any accepted name, a malformed      *)
(* SYNC_CHAIN_IDS list) is reported before any side effect: when the run   *)
(* has failed with it, no HTTP fetch, archive download or extraction,      *)
(* directory creation, manifest download or hydration has been made, and   *)
(* the manifest file and the database directory are as the run found them. *)
(***************************************************************************)
ConfigurationErrors == {"cli_binary_url", "settings_yaml", "api_token", "chain_ids"}

C6_ConfigErrorBeforeSideEffect ==
    (pc = "failed" /\ err.kind \in ConfigurationErrors) =>
        /\ log = <<>>
        /\ manifestFile = AbsentFile
        /\ files \in StaleFiles

(***************************************************************************)
(* Reading the last manifest operation.                                    *)
(***************************************************************************)
\* the manifest a load of the file returns when the read succeeds
Reloaded(file) == load_manifest(file, TRUE).value
HasEntry(file, n) == file.kind = "doc" /\ n \in DOMAIN file.networks
Mismatched(file) == file.kind = "doc" /\ file.schema_version # CURRENT_SCHEMA_VERSION
Committed == lastOp.op = "update_manifest" /\ lastOp.result.ok

(***************************************************************************)
(* C7.  update_manifest preserves seed_generation: after a successful      *)
(* commit of a network that had an entry with seed_generation G the entry  *)
(* has seed_generation G, and the entry of a network that had none has     *)
(* seed_generation 1; a commit that fails and leaves a readable manifest   *)
(* leaves the stored generation as it was.  So a sequence of commits with  *)
(* no bump_seed_generation in between never changes it.                    *)
(***************************************************************************)
C7_CommitPreservesSeedGeneration ==
    lastOp.op = "update_manifest" =>
        LET n == lastOp.network_id IN
        /\ lastOp.result.ok =>
              /\ HasEntry(manifestFile, n)
              /\ Reloaded(manifestFile).networks[n].seed_generation =
                    IF HasEntry(lastOp.before, n)
                    THEN Reloaded(lastOp.before).networks[n].seed_generation
                    ELSE 1
        /\ (~lastOp.result.ok /\ manifestFile.kind = "doc") =>
              StoredGeneration(manifestFile, n) = StoredGeneration(lastOp.before, n)

\* a commit of a network whose entry had a seed_generation above the default
C7_Witness ==
    /\ Committed
    /\ HasEntry(lastOp.before, lastOp.network_id)
    /\ StoredGeneration(lastOp.before, lastOp.network_id) > DEFAULT_SEED_GENERATION
    /\ lastOp.before.networks[lastOp.network_id].dump_url # ReleaseUrl(lastOp.network_id)

(***************************************************************************)
(* C8.  update_manifest on a manifest whose schema_version differs from    *)
(* CURRENT_SCHEMA_VERSION returns an error and leaves the manifest file    *)
(* exactly as it was; when the manifest could be read, the error is the    *)
(* schema mismatch and names the version found and the version expected.   *)
(***************************************************************************)
C8_CommitRejectsSchemaMismatch ==
    (lastOp.op = "update_manifest" /\ Mismatched(lastOp.before)) =>
        /\ ~lastOp.result.ok
        /\ manifestFile = lastOp.before
        /\ lastOp.result.error.kind # "read" =>
              /\ lastOp.result.error.kind = "schema_mismatch"
              /\ lastOp.result.error.found = lastOp.before.schema_version
              /\ lastOp.result.error.expected = CURRENT_SCHEMA_VERSION

\* a commit refused for a manifest of an older version that lists the network
C8_Witness ==
    /\ lastOp.op = "update_manifest"
    /\ Mismatched(lastOp.before)
    /\ lastOp.before.schema_version < CURRENT_SCHEMA_VERSION
    /\ HasEntry(lastOp.before, lastOp.network_id)
    /\ lastOp.result.error.kind = "schema_mismatch"

(***************************************************************************)
(* C9.  update_manifest and bump_seed_generation fail when the manifest's  *)
(* schema_version differs from CURRENT_SCHEMA_VERSION, and neither of them *)
(* changes schema_version.                                                 *)
(***************************************************************************)
C9_SchemaVersionGuarded ==
    lastOp.op \in {"update_manifest", "bump_seed_generation"} =>
        /\ Mismatched(lastOp.before) => ~lastOp.result.ok
        /\ (lastOp.before.kind = "doc" /\ manifestFile.kind = "doc") =>
              manifestFile.schema_version = lastOp.before.schema_version

(***************************************************************************)
(* C10.  Frame of update_manifest: after a successful commit for network N *)
(* the reloaded manifest has the schema_version it had, every network      *)
(* M # N has exactly the entry it had, the set of networks is the former   *)
(* one with N added, and of N's entry only dump_url and dump_timestamp are *)
(* new.                                                                    *)
(***************************************************************************)
C10_CommitFrame ==
    Committed =>
        LET n == lastOp.network_id
            before == Reloaded(lastOp.before)
            after == Reloaded(manifestFile)
        IN /\ after.schema_version = before.schema_version
           /\ DOMAIN after.networks = DOMAIN before.networks \cup {n}
           /\ \A m \in DOMAIN before.networks \ {n} :
                 after.networks[m] = before.networks[m]
           /\ after.networks[n].dump_url = ReleaseUrl(n)
           /\ after.networks[n].dump_timestamp = lastOp.timestamp
           /\ n \in DOMAIN before.networks =>
                 after.networks[n].seed_generation = before.networks[n].seed_generation

\* a commit of a new network into a manifest that holds another network, whose
\* entry was stored without a seed_generation key
C10_Witness ==
    /\ Committed
    /\ ~HasEntry(lastOp.before, lastOp.network_id)
    /\ \E m \in Chains \ {lastOp.network_id} :
          /\ HasEntry(lastOp.before, m)
          /\ lastOp.before.networks[m].seed_generation = <<>>

(***************************************************************************)
(* Reading the last bump_schema_version.                                   *)
(***************************************************************************)
Bumped == lastOp.op = "bump_schema_version" /\ lastOp.result.ok
\* the schema_version a load of the file gives (an absent file loads as a new manifest)
VersionOf(file) == Reloaded(file).schema_version

(***************************************************************************)
(* C11.  bump_schema_version fails atomically on a mismatch: when the      *)
(* constant in the source file differs from the manifest's schema_version  *)
(* before the bump, the operation returns an error and neither the         *)
(* manifest file nor the source file is changed.                           *)
(***************************************************************************)
C11_BumpFailsAtomically ==
    (/\ lastOp.op = "bump_schema_version"
     /\ lastOp.before.kind = "doc"
     /\ lastOp.source # lastOp.before.schema_version) =>
        /\ ~lastOp.result.ok
        /\ manifestFile = lastOp.before
        /\ sourceConst = lastOp.source

(***************************************************************************)
(* C12.  A successful bump_schema_version returns previous = K and         *)
(* next = K + 1, where K is the manifest's schema_version before it, and   *)
(* leaves the manifest's schema_version and the constant of the source     *)
(* file both equal to K + 1 (the constant was K before); a successful bump *)
(* that directly follows a successful bump from K leaves both at K + 2.    *)
(***************************************************************************)
C12_BumpAdvancesBoth ==
    /\ [](Bumped =>
            LET K == VersionOf(lastOp.before) IN
            /\ lastOp.result.value = [previous |-> K, next |-> K + 1]
            /\ lastOp.source = K
            /\ manifestFile.kind = "doc"
            /\ manifestFile.schema_version = K + 1
            /\ sourceConst = K + 1)
    /\ [][(Bumped /\ Bumped') =>
            /\ manifestFile'.schema_version = VersionOf(lastOp.before) + 2
            /\ sourceConst' = VersionOf(lastOp.before) + 2]_vars

\* two successful bumps in a row, the first from the current version
C12_Witness ==
    /\ Bumped
    /\ lastOp.source = CURRENT_SCHEMA_VERSION + 1
    /\ sourceConst = CURRENT_SCHEMA_VERSION + 2
    /\ manifestFile.schema_version = CURRENT_SCHEMA_VERSION + 2
    /\ DOMAIN manifestFile.networks # {}

(***************************************************************************)
(* C13.  A successful bump_seed_generation(N) returns previous = G and     *)
(* next = G + 1, where G is N's seed_generation before it, sets N's        *)
(* seed_generation to G + 1 and changes nothing else: N's dump_url and     *)
(* dump_timestamp, the entry of every other network, the set of networks   *)
(* and the schema_version are as they were.                                *)
(***************************************************************************)
C13_SeedBumpFrame ==
    (lastOp.op = "bump_seed_generation" /\ lastOp.result.ok) =>
        LET n == lastOp.network_id
            before == Reloaded(lastOp.before)
            after == Reloaded(manifestFile)
            G == before.networks[n].seed_generation
        IN /\ HasEntry(lastOp.before, n)
           /\ lastOp.result.value = [network_id |-> n, previous |-> G, next |-> G + 1]
           /\ after.schema_version = before.schema_version
           /\ DOMAIN after.networks = DOMAIN before.networks
           /\ after.networks[n] = [before.networks[n] EXCEPT !.seed_generation = G + 1]
           /\ \A m \in DOMAIN before.networks \ {n} :
                 after.networks[m] = before.networks[m]

\* a bump of a committed network, above the default generation, next to another
\* network
C13_Witness ==
    /\ lastOp.op = "bump_seed_generation"
    /\ lastOp.result.ok
    /\ DOMAIN lastOp.before.networks = Chains
    /\ lastOp.before.networks[lastOp.network_id].dump_url = ReleaseUrl(lastOp.network_id)
    /\ lastOp.result.value.previous > DEFAULT_SEED_GENERATION

(***************************************************************************)
(* C14.  bump_seed_generation(N) on a manifest that has no entry for N     *)
(* returns an error, creates no entry for N and leaves the manifest file   *)
(* unchanged; when the manifest could be read the error is 'not found' and *)
(* names N.                                                                *)
(***************************************************************************)
C14_SeedBumpNotFound ==
    (/\ lastOp.op = "bump_seed_generation"
     /\ lastOp.before.kind \in {"doc", "absent"}
     /\ ~HasEntry(lastOp.before, lastOp.network_id)) =>
        /\ ~lastOp.result.ok
        /\ manifestFile = lastOp.before
        /\ ~HasEntry(manifestFile, lastOp.network_id)
        /\ lastOp.result.error.kind # "read" =>
              lastOp.result.error = [kind |-> "not_found",
                                     network_id |-> lastOp.network_id]

\* a bump refused for a network missing from a manifest that lists another one
C14_Witness ==
    /\ lastOp.op = "bump_seed_generation"
    /\ lastOp.before.kind = "doc"
    /\ DOMAIN lastOp.before.networks # {}
    /\ ~HasEntry(lastOp.before, lastOp.network_id)
    /\ lastOp.result.error.kind = "not_found"

(***************************************************************************)
(* Reading the last database operation.                                    *)
(***************************************************************************)
Finalized == lastOp.op = "finalize_database"
Prepared == lastOp.op = "prepare_database"
\* the working files the operation found and left
Found(kind) == lastOp.before[<<lastOp.chain, kind>>]
Left(kind) == files[<<lastOp.chain, kind>>]

(***************************************************************************)
(* C15.  finalize_database never leaves the previous archive deleted       *)
(* without its replacement in place: if <stem>.sql.gz existed before the   *)
(* call then after it, whether it succeeded or failed at any step, the     *)
(* path holds either the previous archive or the complete new one.         *)
(***************************************************************************)
C15_ArchiveNeverLost ==
    (Finalized /\ Found("gz") # "none") => Left("gz") \in {Found("gz"), "new"}

(***************************************************************************)
(* C16.  When finalize_database fails during export or compression         *)
(* (sqlite3 cannot be spawned or exits non-zero, the temporary archive     *)
(* cannot be created, gzip cannot be spawned or exits non-zero), neither   *)
(* <stem>.sql nor <stem>.sql.gz.tmp exists when the error is returned.     *)
(***************************************************************************)
C16_FinalizeFailureLeavesNoTemporary ==
    (/\ Finalized
     /\ ~lastOp.result.ok
     /\ lastOp.result.error \in {"spawn sqlite3", "sqlite3 export",
                                 "create compressed dump", "spawn gzip", "gzip -c"}) =>
        Left("sql") = "none" /\ Left("tmp") = "none"

(***************************************************************************)
(* C17.  finalize_database called when <stem>.db does not exist returns    *)
(* success and changes nothing: no archive is created, an existing archive *)
(* is neither modified nor deleted, and no intermediate or temporary file  *)
(* is created.                                                             *)
(***************************************************************************)
C17_FinalizeWithoutSnapshot ==
    (Finalized /\ Found("db") = "none") => lastOp.result.ok /\ files = lastOp.before

\* finalize without a db, next to an archive and a stale export
C17_Witness ==
    /\ Finalized
    /\ Found("db") = "none"
    /\ Found("gz") # "none"
    /\ Found("sql") # "none"
    /\ lastOp.result.ok

(***************************************************************************)
(* C18.  After a successful prepare_database: a <stem>.db or <stem>.sql    *)
(* left by an earlier run has been removed or replaced; when no archive    *)
(* <stem>.sql.gz exists no <stem>.db exists; when an archive exists a      *)
(* <stem>.db imported from it exists; in both cases no <stem>.sql remains  *)
(* and the archive is unchanged.                                           *)
(***************************************************************************)
C18_PrepareResult ==
    (Prepared /\ lastOp.result.ok) =>
        /\ Left("db") # "stale"
        /\ Left("sql") = "none"
        /\ Left("gz") = Found("gz")
        /\ Found("gz") = "none" => Left("db") = "none"
        /\ Found("gz") # "none" => Left("db") = "imported"

\* a prepare that found a stale db, a stale export and an archive
C18_Witness ==
    /\ Prepared
    /\ lastOp.result.ok
    /\ Found("db") = "stale"
    /\ Found("sql") = "stale"
    /\ Found("gz") = "remote"

(***************************************************************************)
(* C19.  When prepare_database fails while decompressing the archive or    *)
(* importing it (gzip or sqlite3 cannot be spawned or exits non-zero), it  *)
(* leaves no partial output: neither <stem>.sql nor <stem>.db exists       *)
(* afterwards.                                                             *)
(***************************************************************************)
C19_PrepareFailureLeavesNoPartial ==
    (/\ Prepared
     /\ ~lastOp.result.ok
     /\ lastOp.result.error \in {"spawn gzip", "gzip -dc",
                                 "spawn sqlite3", "sqlite3 import"}) =>
        Left("sql") = "none" /\ Left("db") = "none"

(***************************************************************************)
(* C20.  For a path at which no <stem>.db exists the plan has              *)
(* last_synced_block absent and next_start_block absent, and sqlite3 is    *)
(* not run.                                                                *)
(***************************************************************************)
C20_PlanWithoutSnapshot ==
    (lastOp.op = "plan_sync" /\ Found("db") = "none") =>
        /\ lastOp.result.ok
        /\ lastOp.result.value.last_synced_block = <<>>
        /\ lastOp.result.value.next_start_block = <<>>
        /\ ~lastOp.invoked

\* a plan for a chain without a db, after a finalize that archived one
C20_Witness ==
    /\ lastOp.op = "plan_sync"
    /\ Found("db") = "none"
    /\ Found("gz") = "new"

(***************************************************************************)
(* Reading the last plan.                                                  *)
(***************************************************************************)
Planned == lastOp.op = "plan_sync" /\ Exists(lastOp.before, lastOp.chain, "db")
\* the names of ColumnNames that contain "block" in some mix of cases
BlockColumnNames ==
    {<<"L", "a", "s", "t", "B", "l", "o", "c", "k">>,
     <<"B", "L", "O", "C", "K", "_", "N", "U", "M", "B", "E", "R">>}
BlockColumns(db) == {k \in 1..Len(db.columns) : db.columns[k] \in BlockColumnNames}
FirstBlockColumn(db) == Min(BlockColumns(db))
\* the db file gives no progress, or the tool fails
Uninformative(i) ==
    \/ i.tool.at # 0
    \/ ~i.db.table
    \/ BlockColumns(i.db) = {}
    \/ i.db.top[FirstBlockColumn(i.db)].kind # "digits"

(***************************************************************************)
(* C21.  In every plan next_start_block is present exactly when            *)
(* last_synced_block is, and is then last_synced_block + 1, also when      *)
(* last_synced_block is the largest value a u64 holds.                     *)
(***************************************************************************)
C21_NextStartIsLastPlusOne ==
    lastOp.op = "plan_sync" =>
        /\ lastOp.result.ok
        /\ LET made == lastOp.result.value
           IN /\ (made.next_start_block = <<>>) <=> (made.last_synced_block = <<>>)
              /\ made.last_synced_block # <<>> =>
                    made.next_start_block = <<made.last_synced_block[1] + 1>>

(***************************************************************************)
(* C22.  The inspection of the progress never fails the plan: when the     *)
(* sync_status table is missing or has no row, no column name contains     *)
(* "block", the value read is not a non-negative integer, or sqlite3       *)
(* cannot be run or exits non-zero at any of its three queries, plan_sync  *)
(* succeeds with last_synced_block and next_start_block absent.            *)
(***************************************************************************)
C22_InspectionNeverFails ==
    (Planned /\ Uninformative(lastOp.input)) =>
        /\ lastOp.result.ok
        /\ lastOp.result.value.last_synced_block = <<>>
        /\ lastOp.result.value.next_start_block = <<>>

\* the table has a block column whose largest value is not a number, and the
\* tool works
C22_Witness ==
    /\ Planned
    /\ lastOp.input.tool.at = 0
    /\ lastOp.input.db.table
    /\ BlockColumns(lastOp.input.db) # {}
    /\ lastOp.input.db.top[FirstBlockColumn(lastOp.input.db)].kind = "negative"
    /\ lastOp.result.ok

(***************************************************************************)
(* C23.  The planner selects the first column, in declaration order, whose *)
(* name contains "block" in any mix of cases ("LastBlock", "BLOCK_NUMBER") *)
(* and reads only that column: the progress is the value of that column.   *)
(***************************************************************************)
C23_FirstBlockColumn ==
    (Planned /\ lastOp.input.tool.at = 0 /\ lastOp.input.db.table
             /\ BlockColumns(lastOp.input.db) # {}) =>
        LET db == lastOp.input.db
            read == db.top[FirstBlockColumn(db)]
        IN /\ lastOp.inspection.column = <<FirstBlockColumn(db)>>
           /\ lastOp.inspection.queries = 3
           /\ lastOp.inspection.value =
                 IF read.kind = "digits" THEN <<read.value>> ELSE <<>>

\* two columns match, the second declared holds another value than the first
C23_Witness ==
    /\ Planned
    /\ lastOp.input.tool.at = 0
    /\ lastOp.input.db.table
    /\ Len(lastOp.input.db.columns) = 2
    /\ BlockColumns(lastOp.input.db) = {1, 2}
    /\ lastOp.input.db.top[1] = [kind |-> "digits", value |-> 1]
    /\ lastOp.input.db.top[2] = [kind |-> "digits", value |-> 0]
    /\ lastOp.result.ok
    /\ lastOp.result.value.last_synced_block = <<1>>

(***************************************************************************)
(* C24.  The warning that sqlite3 is missing is printed at most once per   *)
(* process: the flag starts false, is set only by a call that did not find *)
(* the tool, never becomes false again, and a line is printed only by the  *)
(* call that sets it.                                                      *)
(***************************************************************************)
C24_WarnsAtMostOnce ==
    /\ (SQLITE_WARNING_EMITTED = FALSE /\ warnings = 0)
    /\ [](warnings <= 1)
    /\ [][/\ SQLITE_WARNING_EMITTED => SQLITE_WARNING_EMITTED'
          /\ (~SQLITE_WARNING_EMITTED /\ SQLITE_WARNING_EMITTED') =>
                (lastOp'.op = "plan_sync" /\ lastOp'.missing)
          /\ warnings' # warnings =>
                /\ warnings' = warnings + 1
                /\ ~SQLITE_WARNING_EMITTED /\ SQLITE_WARNING_EMITTED']_vars

\* the tool is missing again in a plan made after the warning was printed
C24_Witness ==
    /\ lastOp.op = "plan_sync"
    /\ lastOp.missing
    /\ lastOp.emitted
    /\ SQLITE_WARNING_EMITTED
    /\ warnings = 1

(***************************************************************************)
(* C28.  The rewrite of the manifest by a commit is atomic: after          *)
(* update_manifest, successful or not, the file holds the complete         *)
(* previous document or the complete new one, never an empty, truncated    *)
(* or partial document.                                                    *)
(***************************************************************************)
C28_CommitRewriteAtomic ==
    lastOp.op = "update_manifest" =>
        \/ manifestFile = lastOp.before
        \/ /\ lastOp.result.ok
           /\ manifestFile.kind = "doc"

(***************************************************************************)
(* C29.  Loading a manifest path at which no file exists gives the empty   *)
(* manifest with the current schema_version; a commit on such a path       *)
(* creates a manifest with the current schema_version that holds exactly   *)
(* the committed network, with seed_generation 1.                          *)
(***************************************************************************)
C29_CommitCreatesManifest ==
    /\ \A readOk \in BOOLEAN :
          load_manifest(AbsentFile, readOk) =
              Ok([schema_version |-> CURRENT_SCHEMA_VERSION, networks |-> <<>>])
    /\ (Committed /\ lastOp.before = AbsentFile) =>
          /\ manifestFile.kind = "doc"
          /\ manifestFile.schema_version = CURRENT_SCHEMA_VERSION
          /\ DOMAIN manifestFile.networks = {lastOp.network_id}
          /\ manifestFile.networks[lastOp.network_id].seed_generation = <<1>>
          /\ Reloaded(manifestFile).networks[lastOp.network_id].seed_generation = 1

\* a commit that found no manifest file
C29_Witness ==
    /\ Committed
    /\ lastOp.before = AbsentFile
    /\ manifestFile.kind = "doc"

(***************************************************************************)
(* C30.  After finalize_database has succeeded for a working snapshot that *)
(* existed, <stem>.sql.gz exists and holds the compressed export, in place *)
(* of the previous archive if there was one, and <stem>.db, <stem>.sql and *)
(* <stem>.sql.gz.tmp do not exist.                                         *)
(***************************************************************************)
C30_FinalizeResult ==
    (Finalized /\ lastOp.result.ok /\ Found("db") # "none") =>
        /\ Left("gz") = "new"
        /\ Left("db") = "none"
        /\ Left("sql") = "none"
        /\ Left("tmp") = "none"

\* a finalize that replaced the archive of an earlier run, in a directory
\* where a stale temporary file was lying
C30_Witness ==
    /\ Finalized
    /\ lastOp.result.ok
    /\ Found("db") # "none"
    /\ Found("gz") = "remote"
    /\ Found("tmp") = "stale"
    /\ Left("gz") = "new"

(***************************************************************************)
(* Reading the environment and the invocations of the CLI.                 *)
(***************************************************************************)
\* the accepted names, in the order they are tried
TokenOrder == <<"RAIN_API_TOKEN", "RAIN_ORDERBOOK_API_TOKEN", "HYPERRPC_API_TOKEN">>
\* the credential a variable gives: its value without the blanks around it,
\* <<>> when it is unset, empty or blank
Credential(held) ==
    IF ~held.set THEN <<>>
    ELSE IF held.text = <<"a">> THEN <<"a">>
    ELSE IF held.text = <<" ", "b", " ">> THEN <<"b">>
    ELSE <<>>
\* the tokens of Tokens that are chain ids, and the ones that are no u64
IsChainId(token) == token \in {<<"1", "0">>, <<" ", "2", "0", " ">>}
IsMalformed(token) == token \in {<<"x">>, <<" ", "-", "1">>}
ChainIdOf(token) == IF token = <<"1", "0">> THEN 10 ELSE 20
NameOf(token) == IF token = <<"x">> THEN <<"x">> ELSE <<"-", "1">>
Invoked == lastOp.op = "run_cli_sync" /\ lastOp.result.printed # <<>>

(***************************************************************************)
(* C25.  The credential is the value, without surrounding whitespace, of   *)
(* the first name in the fixed order whose variable is non-empty after     *)
(* trimming; unset and blank variables are passed over; when no name has   *)
(* one, resolution fails with the missing-credential error.  The resolved  *)
(* credential does not change afterwards and is the one every invocation   *)
(* of the CLI is given.                                                    *)
(***************************************************************************)
C25_CredentialResolution ==
    /\ [](lastOp.op = "resolve_api_token" =>
            LET usable == {i \in 1..Len(TokenOrder) :
                              Credential(lastOp.env[TokenOrder[i]]) # <<>>}
            IN IF usable = {}
               THEN /\ ~lastOp.result.ok
                    /\ lastOp.result.error = "api_token"
                    /\ apiToken = NoToken
               ELSE /\ lastOp.result.ok
                    /\ lastOp.result.value =
                          Credential(lastOp.env[TokenOrder[Min(usable)]])
                    /\ apiToken = lastOp.result.value)
    /\ [](lastOp.op = "run_cli_sync" =>
            /\ apiToken # NoToken
            /\ lastOp.options.api_token = <<apiToken>>
            /\ lastOp.result.spawned # <<>> =>
                  \E k \in 1..(Len(lastOp.result.spawned[1]) - 1) :
                      /\ lastOp.result.spawned[1][k] = Word("--api-token")
                      /\ lastOp.result.spawned[1][k + 1] = apiToken)
    /\ [][apiToken # NoToken => apiToken' = apiToken]_vars

\* the first name is blank, the second unset, the third holds a padded value
C25_Witness ==
    /\ lastOp.op = "resolve_api_token"
    /\ lastOp.env["RAIN_API_TOKEN"] = [set |-> TRUE, text |-> <<" ">>]
    /\ lastOp.env["RAIN_ORDERBOOK_API_TOKEN"] = [set |-> FALSE]
    /\ lastOp.env["HYPERRPC_API_TOKEN"] = [set |-> TRUE, text |-> <<" ", "b", " ">>]
    /\ apiToken = <<"b">>

(***************************************************************************)
(* C26.  The credential never appears in the arguments that are logged,    *)
(* whatever the values of the options: the logged arguments are the real   *)
(* ones with the placeholder in the credential's position, and the real    *)
(* arguments carry the credential.                                         *)
(***************************************************************************)
C26_CredentialNotLogged ==
    Invoked =>
        LET logged == lastOp.result.printed[1]
            real == args(lastOp.options, lastOp.options.api_token[1])
            secret == lastOp.options.api_token[1]
        IN /\ \A k \in 1..Len(logged) : logged[k] # secret
           /\ Len(logged) = Len(real)
           /\ \A k \in 1..Len(real) :
                 logged[k] = IF k = 10 THEN Word("***") ELSE real[k]
           /\ real[10] = secret
           /\ lastOp.result.spawned # <<>> => lastOp.result.spawned[1] = real

EmptyManifest == [schema_version |-> CURRENT_SCHEMA_VERSION, networks |-> <<>>]
EmptyDocument == [kind |-> "doc", schema_version |-> CURRENT_SCHEMA_VERSION,
                  networks |-> <<>>]
\* the positions in the log of the calls of an operation
CallsTo(op) == {i \in 1..Len(log) : log[i].op = op}
\* the run has determined its network set and gone on
NetworksKnown == pc \in {"prepare", "plan", "invoke", "finalize", "cleanup",
                         "commit", "done"} \/ ChainCalls # <<>>

(***************************************************************************)
(* C31.  When the remote manifest cannot be fetched, download_manifest     *)
(* does not fail for that: it writes the empty manifest with the current   *)
(* schema_version to the manifest path and, the write done, returns that   *)
(* manifest; the run goes on, and its networks are those of the            *)
(* configuration and of the environment only.                              *)
(***************************************************************************)
C31_FetchFailureFallsBack ==
    \A i \in CallsTo("download_manifest") :
        log[i].fetch = "failed" =>
            /\ log[i].write # "none"
            /\ log[i].write = "ok" =>
                  /\ log[i].ok
                  /\ manifest = EmptyManifest
                  /\ err.at # "manifest"
                  /\ i = Len(log) => (pc = "dumps" /\ manifestFile = EmptyDocument)
                  /\ NetworksKnown =>
                        /\ sources.manifest = {}
                        /\ chainIds = sources.env \cup sources.config
                        /\ \A k \in 1..Len(ChainCalls) :
                              ChainCalls[k].chain \in sources.env \cup sources.config

\* a run that could not fetch the manifest and completed both networks
C31_Witness ==
    /\ pc = "done"
    /\ \E i \in CallsTo("download_manifest") : log[i].fetch = "failed"
    /\ chainIds = Chains
    /\ sources.env = {10}
    /\ sources.config = {20}

(***************************************************************************)
(* C32.  Hydration completes before any network's prepare: when prepare    *)
(* is first called, download_dumps has returned success, has made one      *)
(* fetch for each network of the loaded manifest and the archive of each   *)
(* of them is in the database directory; for a manifest without networks   *)
(* it makes no fetch and writes no file; when it fails no call is made     *)
(* for any network.                                                        *)
(***************************************************************************)
C32_HydrateBeforePrepare ==
    /\ ChainCalls # <<>> =>
          \E i \in CallsTo("download_dumps") :
              /\ log[i].ok
              /\ log[i].fetches = Cardinality(DOMAIN manifest.networks)
              /\ \A j \in 1..i : log[j].chain = 0
    /\ (pc \in {"chain_ids", "prepare"} /\ ChainCalls = <<>>) =>
          \A n \in DOMAIN manifest.networks : files[<<n, "gz">>] = "remote"
    /\ \A i \in CallsTo("download_dumps") :
          /\ DOMAIN manifest.networks = {} =>
                /\ log[i].ok
                /\ log[i].fetches = 0
                /\ i = Len(log) => files \in StaleFiles
          /\ ~log[i].ok => (pc = "failed" /\ ChainCalls = <<>> /\ i = Len(log))

\* the first prepare has been called, the manifest lists both networks
C32_Witness ==
    /\ pc = "plan"
    /\ Len(ChainCalls) = 1
    /\ DOMAIN manifest.networks = Chains
    /\ files[<<20, "gz">>] = "remote"

(***************************************************************************)
(* C33.  In every run, whatever the number of networks processed, the      *)
(* settings document is fetched, the archive of the binary downloaded and  *)
(* extracted, the manifest loaded and the snapshots hydrated at most once, *)
(* and exactly once, with success and before the first prepare, in a run   *)
(* that has come to its networks or has completed.                         *)
(***************************************************************************)
OncePerRun == {"fetch_settings", "download_archive", "extract_binary",
               "download_manifest", "download_dumps"}

C33_AcquiredOnce ==
    \A op \in OncePerRun :
        /\ Cardinality(CallsTo(op)) <= 1
        /\ NetworksKnown =>
              /\ Cardinality(CallsTo(op)) = 1
              /\ \A i \in CallsTo(op) :
                    /\ log[i].ok
                    /\ \A j \in 1..Len(log) : log[j].chain # 0 => i < j

\* a completed run without any network
C33_Witness ==
    /\ pc = "done"
    /\ chainIds = {}
    /\ ChainCalls = <<>>
    /\ Len(log) = 6

(***************************************************************************)
(* C34.  For every network the external process is invoked with that       *)
(* network's id, its own working snapshot path, the credential and the     *)
(* settings of the run, a start bound equal to the next_start_block of the *)
(* plan computed for that network in this run (absent when the plan has    *)
(* none) and no end bound.                                                 *)
(***************************************************************************)
C34_InvocationOptions ==
    /\ pc = "finalize" => lastOp.op = "run_cli_sync"
    /\ lastOp.op = "run_cli_sync" =>
          /\ OpsOf(cur)[Len(OpsOf(cur))] \in {"invoke", "finalize"}
          /\ CallsOf(cur)[2].op = "plan" /\ CallsOf(cur)[2].ok
          /\ lastOp.options.chain_id = cur
          /\ lastOp.options.db_path =
                IF cur = 10 THEN <<"data/", "1", "0", ".db">>
                            ELSE <<"data/", "2", "0", ".db">>
          /\ lastOp.options.api_token = <<apiToken>>
          /\ apiToken # NoToken
          /\ lastOp.options.settings_yaml = <<"settings">>
          /\ lastOp.options.start_block = plan.next_start_block
          /\ lastOp.options.end_block = <<>>

\* the second network is invoked with the start bound of its own plan
C34_Witness ==
    /\ lastOp.op = "run_cli_sync"
    /\ cur = 20
    /\ plan.last_synced_block = <<0>>
    /\ lastOp.options.start_block = <<1>>
    /\ lastOp.options.chain_id = 20

(***************************************************************************)
(* C35.  An entry committed by the run points at an archive that exists:   *)
(* when update_manifest is called for a network, and after it has          *)
(* succeeded, <id>.sql.gz exists in the database directory, also when the  *)
(* external process left no working snapshot and finalize did nothing.     *)
(***************************************************************************)
C35_CommittedArchiveExists ==
    /\ pc = "commit" => Exists(files, cur, "gz")
    /\ \A i \in CallsTo("commit") :
          (i = Len(log) /\ log[i].ok) => Exists(files, log[i].chain, "gz")

C37_SeedGenerationMonotone ==
    lastOp.op \in {"update_manifest", "bump_seed_generation"} =>
        \A n \in Chains :
            HasEntry(lastOp.before, n) =>
                LET G == StoredGeneration(lastOp.before, n)
                    g == StoredGeneration(manifestFile, n)
                    bumped == /\ lastOp.op = "bump_seed_generation"
                              /\ lastOp.result.ok
                              /\ lastOp.network_id = n
                IN /\ g >= G
                   /\ g = IF bumped THEN G + 1 ELSE G

(***************************************************************************)
(* C38.  Every run in which each collaborator call returns ends, either    *)
(* completed without an error or aborted with one, and stays there; a      *)
(* failed call is the last call of the run (no step is retried, nothing is *)
(* started after the first error); no step is made twice for a network,    *)
(* so the external process is invoked at most once per network, and only   *)
(* for networks of the effective set.                                      *)
(***************************************************************************)
C38_RunTerminates ==
    /\ <>(pc \in {"done", "failed"})
    /\ [](/\ pc = "done" => err.kind = "none"
          /\ pc = "failed" => err.kind # "none"
          /\ \A i \in 1..Len(log) : ~log[i].ok => i = Len(log)
          /\ \A c \in Chains :
                /\ \A i, j \in 1..Len(CallsOf(c)) :
                      i # j => CallsOf(c)[i].op # CallsOf(c)[j].op
                /\ CallsOf(c) # <<>> => c \in chainIds)
    /\ [][(pc = "done" \/ pc = "failed") => vars' = vars]_vars

\* an aborted run: the first network was completed, the invocation of the
\* second failed
C38_Witness ==
    /\ pc = "failed"
    /\ err.at = "invoke"
    /\ OpsOf(10) = CycleOps
    /\ OpsOf(20) = SubSeq(CycleOps, 1, 3)

\* the file after the operation of a writer, run alone and without fault
AloneOn(file, writer) ==
    IF writer.op = "update_manifest"
    THEN update_manifest(file, writer.network_id, ReleaseUrl(writer.network_id),
                         writer.timestamp, TRUE, "ok").file
    ELSE bump_seed_generation(file, writer.network_id, TRUE, "ok").file

\* two commits of different networks, or a commit and a bump
LostUpdateCase(a, b) ==
    \/ /\ a.op = "update_manifest" /\ b.op = "update_manifest"
       /\ a.network_id # b.network_id
    \/ a.op # b.op

(***************************************************************************)
(* C39.  The read-modify-write of the manifest is not safe under           *)
(* concurrency: when two writers (two commits of different networks, or a  *)
(* commit and a bump_seed_generation) have both loaded before either       *)
(* wrote and both wrote, the file is what the later writer's operation     *)
(* alone makes of the file they loaded, and the update of the earlier      *)
(* writer (its new entry, or its generation bump) is not in it.            *)
(***************************************************************************)
C39_LaterWriteWins ==
    (/\ Len(log) = 4
     /\ \A i \in 1..4 : log[i].ok
     /\ log[1].step = "load" /\ log[2].step = "load"
     /\ log[3].step = "write" /\ log[4].step = "write"
     /\ log[3].writer # log[4].writer
     /\ LostUpdateCase(lastOp[log[3].writer], lastOp[log[4].writer])) =>
        LET earlier == lastOp[log[3].writer]
            later == lastOp[log[4].writer]
            n == earlier.network_id
        IN /\ later.before = earlier.before
           /\ manifestFile = AloneOn(later.before, later)
           /\ IF earlier.op = "update_manifest"
              THEN ~(/\ HasEntry(manifestFile, n)
                     /\ manifestFile.networks[n].dump_url = ReleaseUrl(n))
              ELSE StoredGeneration(manifestFile, n) =
                       StoredGeneration(earlier.before, n)

\* two commits of different networks on a manifest that listed neither: both
\* loaded, both wrote
C39_Witness ==
    /\ Len(log) = 4
    /\ log[2].step = "load"
    /\ lastOp[1].pc = "written" /\ lastOp[2].pc = "written"
    /\ lastOp[1].op = "update_manifest" /\ lastOp[2].op = "update_manifest"
    /\ lastOp[log[3].writer].network_id = 10
    /\ lastOp[log[4].writer].network_id = 20
    /\ DOMAIN manifestFile.networks = {20}

====
